---- MODULE Spec2Model ----
(***************************************************************************)
(* Model of the motortrace backend: the account, role-profile, vehicle and *)
(* subscription tables, the route handlers that write them, and the        *)
(* setup-status evaluator checkSetupStatus that reads them.                *)
(***************************************************************************)
EXTENDS Integers, Sequences, FiniteSets, TLC

\* ------------------------------------------------------------------ values

\* JavaScript null / undefined, kept as strings so that they compare with the
\* string values of the same fields.
NULL == "<null>"
UNDEFINED == "<undefined>"

\* JavaScript truthiness of a string-or-null value: null, undefined and the
\* empty string are falsy.
Truthy(v) == v # NULL /\ v # UNDEFINED /\ v # ""

\* What Prisma stores for an optional column: undefined means "not given".
OrNull(v) == IF v = UNDEFINED THEN NULL ELSE v

\* ------------------------------------------------------------------ bounds

\* Largest account id the autoincrement sequence hands out.
MaxUserId == 1
\* Largest vehicle id and subscription id handed out.
MaxVehicleId == 2
MaxSubscriptionId == 1

Emails == {"a@x.io", "b@x.io"}
GoodPhone == "0771234567"
ShortPhone == "12345"
GoodPassword == "secret123"
Plates == {"CAR-1", "CAR-2"}
ValidRoles == {"car_owner", "service_center", "part_seller"}
Statuses == {"active", "cancelled", "expired"}

UserIds == 1..MaxUserId

\* ------------------------------------------------------------------ state

VARIABLES
    users,                  \* table User: id -> row
    nextUserId,             \* User.id autoincrement
    carOwnerProfiles,       \* table CarOwnerProfile: the userIds that own a row
    serviceCenterProfiles,  \* table ServiceCenterProfile: the userIds that own a row
    partSellerProfiles,     \* table PartSellerProfile: the userIds that own a row
    vehicles,               \* table Vehicle: rows [id, userId, licensePlate, isPrimary]
    nextVehicleId,          \* Vehicle.id autoincrement
    subscriptions,          \* table Subscription: rows [id, userId, status]
    nextSubscriptionId,     \* Subscription.id autoincrement
    otpStore,               \* the in-memory Map email -> [otp, expires]
    now,                    \* Date.now(), in milliseconds
    inflight,               \* the requests that are between the two awaits of their handler
    issued,                 \* the reset tokens the server has signed
    reply                   \* the response of the last request handled

rows == <<users, carOwnerProfiles, serviceCenterProfiles, partSellerProfiles,
          vehicles, subscriptions>>
sequences == <<nextUserId, nextVehicleId, nextSubscriptionId>>
vars == <<users, nextUserId, carOwnerProfiles, serviceCenterProfiles,
          partSellerProfiles, vehicles, nextVehicleId, subscriptions,
          nextSubscriptionId, otpStore, now, inflight, issued, reply>>

\* The database as one value, so that a handler can evaluate a read against
\* the rows it has just written.
DB == [users |-> users,
       nextVehicleId |-> nextVehicleId,
       carOwnerProfiles |-> carOwnerProfiles,
       serviceCenterProfiles |-> serviceCenterProfiles,
       partSellerProfiles |-> partSellerProfiles,
       vehicles |-> vehicles,
       subscriptions |-> subscriptions]

\* ------------------------------------------------- the setup-status evaluator

NoRedirect == "<none>"
UserNotFound == [error |-> "User not found"]

\* A variant of IsRegistrationComplete that forgets to ask for a role.
IsRegistrationComplete_AnyRole(user) ==
    Truthy(user.phone) /\ user.role # "car_owner"

\* A variant of IsRegistrationComplete that exempts car owners from the check.
IsRegistrationComplete_CarOwnerExempt(user) ==
    user.role = "car_owner" \/ (Truthy(user.phone) /\ Truthy(user.role))

\* setupFlow.ts:25
IsRegistrationComplete(user) ==
    Truthy(user.phone) /\ Truthy(user.role) /\ user.role # "car_owner"

\* A variant of IsSetupComplete that forgets the car owner's vehicles.
IsSetupComplete_ProfileOnly(user, hasCarOwnerProfile, hasServiceCenterProfile, hasPartSellerProfile, nVehicles) ==
    CASE user.role = "car_owner" -> hasCarOwnerProfile
      [] user.role = "service_center" -> hasServiceCenterProfile
      [] user.role = "part_seller" -> hasPartSellerProfile
      [] OTHER -> FALSE

\* setupFlow.ts:33-45; a role outside the three cases leaves the initial false.
IsSetupComplete(user, hasCarOwnerProfile, hasServiceCenterProfile, hasPartSellerProfile, nVehicles) ==
    CASE user.role = "car_owner" -> hasCarOwnerProfile /\ nVehicles > 0
      [] user.role = "service_center" -> hasServiceCenterProfile
      [] user.role = "part_seller" -> hasPartSellerProfile
      [] OTHER -> FALSE

\* A variant of HasActiveSubscription that takes any row for an active one.
HasActiveSubscription_AnyRow(subs) == subs # {}

\* setupFlow.ts:53; subs is the set of Subscription rows included for the user.
HasActiveSubscription(subs) ==
    \E s \in subs : s.status = "active"

\* A variant of PaymentRequired that asks every role for a subscription.
PaymentRequired_AnyRole(user, hasActiveSubscription) == ~hasActiveSubscription

\* A variant of PaymentRequired that asks only service centers.
PaymentRequired_ServiceCenterOnly(user, hasActiveSubscription) ==
    user.role = "service_center" /\ ~hasActiveSubscription

\* setupFlow.ts:55
PaymentRequired(user, hasActiveSubscription) ==
    (user.role = "service_center" \/ user.role = "part_seller")
        /\ ~hasActiveSubscription

\* Variants of StepsAndRedirect.
\* The profile check as an else-branch of the registration check.
StepsAndRedirect_ElseIf(isRegistrationComplete, isSetupComplete, paymentRequired) ==
    LET m1 == IF ~isRegistrationComplete THEN <<"registration">>
              ELSE IF ~isSetupComplete THEN <<"profile">> ELSE << >>
        m3 == IF paymentRequired THEN Append(m1, "payment") ELSE m1
    IN  [missingSteps |-> m3,
         redirectTo |-> IF paymentRequired THEN "/setup/payment"
                        ELSE IF Len(m1) > 0 THEN "/setup/details"
                        ELSE "<none>"]

\* The first missing step, not the last, decides redirectTo.
StepsAndRedirect_FirstWins(isRegistrationComplete, isSetupComplete, paymentRequired) ==
    LET m1 == IF ~isRegistrationComplete THEN <<"registration">> ELSE << >>
        m2 == IF ~isSetupComplete THEN Append(m1, "profile") ELSE m1
        m3 == IF paymentRequired THEN Append(m2, "payment") ELSE m2
    IN  [missingSteps |-> m3,
         redirectTo |-> IF Len(m2) > 0 THEN "/setup/details"
                        ELSE IF paymentRequired THEN "/setup/payment"
                        ELSE "<none>"]

\* The final reset keyed on isSetupComplete instead of on missingSteps.
StepsAndRedirect_ResetOnSetup(isRegistrationComplete, isSetupComplete, paymentRequired) ==
    LET m1 == IF ~isRegistrationComplete THEN <<"registration">> ELSE << >>
        m2 == IF ~isSetupComplete THEN Append(m1, "profile") ELSE m1
        m3 == IF paymentRequired THEN Append(m2, "payment") ELSE m2
    IN  [missingSteps |-> m3,
         redirectTo |-> IF isSetupComplete THEN "<none>"
                        ELSE IF paymentRequired THEN "/setup/payment"
                        ELSE "/setup/details"]

\* The payment check made before the profile check.
StepsAndRedirect_PaymentFirst(isRegistrationComplete, isSetupComplete, paymentRequired) ==
    LET m1 == IF ~isRegistrationComplete THEN <<"registration">> ELSE << >>
        m2 == IF paymentRequired THEN Append(m1, "payment") ELSE m1
        m3 == IF ~isSetupComplete THEN Append(m2, "profile") ELSE m2
    IN  [missingSteps |-> m3,
         redirectTo |-> IF paymentRequired THEN "/setup/payment"
                        ELSE IF Len(m3) > 0 THEN "/setup/details"
                        ELSE "<none>"]

\* setupFlow.ts:21-63: the three checks in order, each pushing its step and
\* overwriting redirectTo; the final reset when nothing is missing.
StepsAndRedirect(isRegistrationComplete, isSetupComplete, paymentRequired) ==
    LET m0 == << >>
        r0 == NoRedirect
        m1 == IF ~isRegistrationComplete THEN Append(m0, "registration") ELSE m0
        r1 == IF ~isRegistrationComplete THEN "/setup/details" ELSE r0
        m2 == IF ~isSetupComplete THEN Append(m1, "profile") ELSE m1
        r2 == IF ~isSetupComplete THEN "/setup/details" ELSE r1
        m3 == IF paymentRequired THEN Append(m2, "payment") ELSE m2
        r3 == IF paymentRequired THEN "/setup/payment" ELSE r2
        r4 == IF Len(m3) = 0 THEN NoRedirect ELSE r3
    IN  [missingSteps |-> m3, redirectTo |-> r4]

\* A variant of checkSetupStatusOn that answers for a missing account, as if
\* nothing had been set up, instead of throwing.
checkSetupStatusOn_NoThrow(db, userId) ==
    IF userId \notin DOMAIN db.users
    THEN [error |-> "",
          isRegistrationComplete |-> FALSE,
          isSetupComplete |-> FALSE,
          hasActiveSubscription |-> FALSE,
          missingSteps |-> <<"registration", "profile">>,
          redirectTo |-> "/setup/details"]
    ELSE
      LET user == db.users[userId]
          subs == {s \in db.subscriptions : s.userId = userId}
          nVehicles == Cardinality({v \in db.vehicles : v.userId = userId})
          isRegistrationComplete ==
              Truthy(user.phone) /\ Truthy(user.role) /\ user.role # "car_owner"
          isSetupComplete ==
              CASE user.role = "car_owner" ->
                       userId \in db.carOwnerProfiles /\ nVehicles > 0
                [] user.role = "service_center" ->
                       userId \in db.serviceCenterProfiles
                [] user.role = "part_seller" -> userId \in db.partSellerProfiles
                [] OTHER -> FALSE
          hasActiveSubscription == \E s \in subs : s.status = "active"
          paymentRequired ==
              user.role \in {"service_center", "part_seller"}
                  /\ ~hasActiveSubscription
          steps ==
              (IF ~isRegistrationComplete THEN <<"registration">> ELSE << >>)
              \o (IF ~isSetupComplete THEN <<"profile">> ELSE << >>)
              \o (IF paymentRequired THEN <<"payment">> ELSE << >>)
      IN  [error |-> "",
           isRegistrationComplete |-> isRegistrationComplete,
           isSetupComplete |-> isSetupComplete,
           hasActiveSubscription |-> hasActiveSubscription,
           missingSteps |-> steps,
           redirectTo |-> IF paymentRequired THEN "/setup/payment"
                          ELSE IF Len(steps) > 0 THEN "/setup/details"
                          ELSE "<none>"]

\* setupFlow.ts:5-72, evaluated on the database value db.
checkSetupStatusOn(db, userId) ==
    IF userId \notin DOMAIN db.users
    THEN UserNotFound
    ELSE
      LET user == db.users[userId]
          subs == {s \in db.subscriptions : s.userId = userId}
          nVehicles == Cardinality({v \in db.vehicles : v.userId = userId})
          isRegistrationComplete == IsRegistrationComplete(user)
          isSetupComplete ==
              IsSetupComplete(user,
                              userId \in db.carOwnerProfiles,
                              userId \in db.serviceCenterProfiles,
                              userId \in db.partSellerProfiles,
                              nVehicles)
          hasActiveSubscription == HasActiveSubscription(subs)
          sr == StepsAndRedirect(isRegistrationComplete, isSetupComplete,
                                 PaymentRequired(user, hasActiveSubscription))
      IN  [error |-> "",
           isRegistrationComplete |-> isRegistrationComplete,
           isSetupComplete |-> isSetupComplete,
           hasActiveSubscription |-> hasActiveSubscription,
           missingSteps |-> sr.missingSteps,
           redirectTo |-> sr.redirectTo]

checkSetupStatus(userId) == checkSetupStatusOn(DB, userId)

\* setupFlow.ts:74-80
canAccessDashboard(setupStatus) == Len(setupStatus.missingSteps) = 0
getNextSetupStep(setupStatus) == setupStatus.redirectTo

\* ------------------------------------------------------------ validation.ts

\* validation.ts:3-6; every address of Emails matches the pattern, BadEmail
\* (no "@") does not.
BadEmail == "nobody"
validateEmail(email) == email \in Emails

\* validation.ts:8-10
MinPasswordLen == 8
validatePassword(password) == Len(password) >= MinPasswordLen

\* validation.ts:12-15
MinPhoneLen == 10
validatePhone(phone) == Len(phone) >= MinPhoneLen

\* validation.ts:17-20
validateRole(role) == role \in ValidRoles

\* validation.ts:22-47
validateRegistrationData(email, password) ==
    /\ Truthy(email) /\ Truthy(password)
    /\ validateEmail(email)
    /\ validatePassword(password)

\* A profileData object of a request body: defined says whether the body
\* carries one at all, hasVehicles whether it has a vehicles array.
ProfileData(defined, hasVehicles, vs, businessDetails, shopDetails) ==
    [defined |-> defined, hasVehicles |-> hasVehicles, vehicles |-> vs,
     businessDetails |-> businessDetails, shopDetails |-> shopDetails]

\* validation.ts:49-84
validateCompleteRegistrationData(phone, role, pd) ==
    /\ Truthy(phone) /\ Truthy(role)
    /\ validatePhone(phone)
    /\ validateRole(role)
    /\ ~(role = "car_owner"
           /\ (~pd.defined \/ ~pd.hasVehicles \/ Len(pd.vehicles) = 0))
    /\ ~(role = "service_center" /\ (~pd.defined \/ ~pd.businessDetails))
    /\ ~(role = "part_seller" /\ (~pd.defined \/ ~pd.shopDetails))

\* ------------------------------------------------------------ transactions

\* bcrypt.hash / bcrypt.compare
Hash(password) == "bcrypt:" \o password
Compare(password, hashed) == hashed = Hash(password)

Ok(db) == [ok |-> TRUE, db |-> db]
Failed == [ok |-> FALSE]

\* prisma.user.findUnique({ where: { email } }): the ids whose row has it.
UserIdsByEmail(db, email) == {i \in DOMAIN db.users : db.users[i].email = email}

\* prisma.user.create: a new row under the next id.
WithUser(db, id, row) ==
    [db EXCEPT !.users = [i \in (DOMAIN db.users) \cup {id} |->
                             IF i = id THEN row ELSE db.users[i]]]

\* auth.ts:60-101: the registration transaction.  It throws, and rolls back,
\* when the role asks for details of a profileData the body does not carry.
RegisterTx(db, id, email, password, phone, role, isMobile, pd) ==
    LET row == [email |-> email,
                password |-> Hash(password),
                phone |-> OrNull(phone),
                role |-> IF role = UNDEFINED THEN "car_owner" ELSE role,
                isRegistrationComplete |-> ~isMobile]
        d1 == WithUser(db, id, row)
    IN  IF role \in {"service_center", "part_seller"} /\ ~pd.defined
        THEN Failed
        ELSE IF role = "service_center" /\ pd.businessDetails
        THEN Ok([d1 EXCEPT !.serviceCenterProfiles = @ \cup {id}])
        ELSE IF role = "part_seller" /\ pd.shopDetails
        THEN Ok([d1 EXCEPT !.partSellerProfiles = @ \cup {id}])
        ELSE Ok(d1)

\* auth.ts:416-430: the vehicle rows of setup/details, created one by one from
\* index i on under the ids nextId, nextId + 1, ...  A create throws on a taken
\* licensePlate (part_002:51) and on the argument vehicleType, which the
\* Vehicle model (part_002:45-62) lacks.
RECURSIVE CreateVehicles(_, _, _, _, _)
CreateVehicles(vrows, nextId, userId, vs, i) ==
    IF i > Len(vs) THEN [ok |-> TRUE, rows |-> vrows, nextId |-> nextId]
    ELSE IF vs[i].vehicleType # UNDEFINED
    THEN [ok |-> FALSE, rows |-> vrows, nextId |-> nextId]
    ELSE IF \E v \in vrows : v.licensePlate = vs[i].licensePlate
    THEN [ok |-> FALSE, rows |-> vrows, nextId |-> nextId]
    ELSE CreateVehicles(vrows \cup {[id |-> nextId,
                                     userId |-> userId,
                                     licensePlate |-> vs[i].licensePlate,
                                     isPrimary |-> (i = 1)]},
                        nextId + 1, userId, vs, i + 1)

\* auth.ts:400-461: the setup/details transaction; any failing create rolls
\* the whole of it back.
SetupDetailsTx(db, userId, phone, role, pd) ==
    LET d1 == [db EXCEPT !.users[userId].phone = phone,
                         !.users[userId].role = role,
                         !.users[userId].isRegistrationComplete = TRUE]
    IN  IF role = "car_owner" /\ pd.hasVehicles
        THEN IF userId \in db.carOwnerProfiles
             THEN Failed
             ELSE LET cv == CreateVehicles(db.vehicles, db.nextVehicleId,
                                           userId, pd.vehicles, 1)
                  IN  IF cv.ok
                      THEN Ok([d1 EXCEPT !.carOwnerProfiles = @ \cup {userId},
                                         !.vehicles = cv.rows,
                                         !.nextVehicleId = cv.nextId])
                      ELSE Failed
        ELSE IF role = "service_center" /\ pd.businessDetails
        THEN IF userId \in db.serviceCenterProfiles
             THEN Failed
             ELSE Ok([d1 EXCEPT !.serviceCenterProfiles = @ \cup {userId}])
        ELSE IF role = "part_seller" /\ pd.shopDetails
        THEN IF userId \in db.partSellerProfiles
             THEN Failed
             ELSE Ok([d1 EXCEPT !.partSellerProfiles = @ \cup {userId}])
        ELSE Ok(d1)

\* ------------------------------------------------------------------ requests

\* The request bodies the clients send.
NoProfileData == ProfileData(FALSE, FALSE, << >>, FALSE, FALSE)
EmptyProfileData == ProfileData(TRUE, FALSE, << >>, FALSE, FALSE)
BusinessProfileData == ProfileData(TRUE, FALSE, << >>, TRUE, FALSE)
ShopProfileData == ProfileData(TRUE, FALSE, << >>, FALSE, TRUE)
VehicleData(plate, vehicleType) ==
    [licensePlate |-> plate, vehicleType |-> vehicleType]
VehicleLists ==
    {<< >>,
     <<VehicleData("CAR-1", UNDEFINED)>>,
     <<VehicleData("CAR-1", "car")>>,
     <<VehicleData("CAR-1", UNDEFINED), VehicleData("CAR-2", UNDEFINED)>>}
VehiclesProfileData(vs) == ProfileData(TRUE, TRUE, vs, FALSE, FALSE)

\* The user ids a signed token can carry: every id an account was created
\* under, whether or not the account still exists.
TokenUserIds == 1..(nextUserId - 1)

\* Writes the tables of db.
Commit(db) ==
    /\ users' = db.users
    /\ carOwnerProfiles' = db.carOwnerProfiles
    /\ serviceCenterProfiles' = db.serviceCenterProfiles
    /\ partSellerProfiles' = db.partSellerProfiles
    /\ vehicles' = db.vehicles
    /\ nextVehicleId' = db.nextVehicleId
    /\ subscriptions' = db.subscriptions

NoWrite ==
    UNCHANGED <<users, carOwnerProfiles, serviceCenterProfiles,
                partSellerProfiles, vehicles, nextVehicleId, subscriptions>>

\* A response that carries no setup status: only its status code is kept, not
\* the route op that answered.
Plain(op, code) ==
    [op |-> "", code |-> code, userId |-> 0, thrown |-> ""]

\* The response of a handler that called checkSetupStatus and got st: the
\* status and requiresSetup on success (auth.ts:110-122, 162-175, 331-344,
\* 467-479), the catch block's 500 when the call threw.
WithSetupStatus(op, userId, st) ==
    IF st = UserNotFound
    THEN [op |-> op, code |-> 500, userId |-> userId, thrown |-> st.error]
    ELSE [op |-> op, code |-> 200, userId |-> userId, thrown |-> "",
          setupStatus |-> st,
          requiresSetup |-> Len(st.missingSteps) > 0]

\* auth.ts:33-127  POST /auth/register
Register(email, password, phone, role, isMobile, pd) ==
    LET r == IF isMobile THEN "car_owner" ELSE role
        tx == RegisterTx(DB, nextUserId, email, password, phone, r, isMobile, pd)
    IN
    /\ UNCHANGED <<nextSubscriptionId, otpStore, now, inflight, issued>>
    /\ IF ~validateRegistrationData(email, password)
       THEN /\ NoWrite /\ UNCHANGED nextUserId
            /\ reply' = Plain("POST /auth/register", 400)
       ELSE IF UserIdsByEmail(DB, email) # {}
       THEN /\ NoWrite /\ UNCHANGED nextUserId
            /\ reply' = Plain("POST /auth/register", 400)
       ELSE IF ~tx.ok
       THEN /\ NoWrite /\ UNCHANGED nextUserId
            /\ reply' = Plain("POST /auth/register", 500)
       ELSE /\ Commit(tx.db)
            /\ nextUserId' = nextUserId + 1
            /\ reply' = WithSetupStatus("POST /auth/register", nextUserId,
                                        checkSetupStatusOn(tx.db, nextUserId))

\* auth.ts:130-180  POST /auth/login.  After the status is computed the
\* handler awaits EmailService.sendLoginNotificationEmail (auth.ts:159), which
\* Services/Email.ts does not define: notified says whether that call
\* returned; when it threw, the catch block answers 500.
Login(email, password, notified) ==
    /\ NoWrite /\ UNCHANGED <<nextUserId, nextSubscriptionId, otpStore, now, inflight, issued>>
    /\ IF ~Truthy(email) \/ ~Truthy(password)
       THEN reply' = Plain("POST /auth/login", 400)
       ELSE IF UserIdsByEmail(DB, email) = {}
       THEN reply' = Plain("POST /auth/login", 404)
       ELSE LET id == CHOOSE i \in UserIdsByEmail(DB, email) : TRUE
            IN  IF ~Truthy(users[id].password)
                     \/ ~Compare(password, users[id].password)
                THEN reply' = Plain("POST /auth/login", 401)
                ELSE IF ~notified
                THEN reply' = Plain("POST /auth/login", 500)
                ELSE reply' = WithSetupStatus("POST /auth/login", id,
                                              checkSetupStatus(id))

\* A variant of GoogleLogin that upserts: an existing account gets the role of
\* a new one.
GoogleLogin_Upsert(email) ==
    /\ UNCHANGED <<nextSubscriptionId, otpStore, now, inflight, issued>>
    /\ IF UserIdsByEmail(DB, email) # {}
       THEN LET id == CHOOSE i \in UserIdsByEmail(DB, email) : TRUE
                db == [DB EXCEPT !.users[id].role = "car_owner"]
            IN  /\ Commit(db) /\ UNCHANGED nextUserId
                /\ reply' = WithSetupStatus("POST /auth/google", id,
                                            checkSetupStatusOn(db, id))
       ELSE LET row == [email |-> email, password |-> "", phone |-> NULL,
                        role |-> "car_owner",
                        isRegistrationComplete |-> FALSE]
                db == WithUser(DB, nextUserId, row)
            IN  /\ Commit(db)
                /\ nextUserId' = nextUserId + 1
                /\ reply' = WithSetupStatus("POST /auth/google", nextUserId,
                                            checkSetupStatusOn(db, nextUserId))

\* auth.ts:283-349  POST /auth/google, for a token Google verifies and that
\* carries email.
GoogleLogin(email) ==
    /\ UNCHANGED <<nextSubscriptionId, otpStore, now, inflight, issued>>
    /\ IF UserIdsByEmail(DB, email) # {}
       THEN LET id == CHOOSE i \in UserIdsByEmail(DB, email) : TRUE
            IN  /\ NoWrite /\ UNCHANGED nextUserId
                /\ reply' = WithSetupStatus("POST /auth/google", id,
                                            checkSetupStatus(id))
       ELSE LET row == [email |-> email, password |-> "", phone |-> NULL,
                        role |-> "car_owner",
                        isRegistrationComplete |-> FALSE]
                db == WithUser(DB, nextUserId, row)
            IN  /\ Commit(db)
                /\ nextUserId' = nextUserId + 1
                /\ reply' = WithSetupStatus("POST /auth/google", nextUserId,
                                            checkSetupStatusOn(db, nextUserId))

\* A variant of GetSetupStatus that stores the computed flag in the account's
\* isRegistrationComplete column.
GetSetupStatus_Caching(userId) ==
    /\ UNCHANGED <<carOwnerProfiles, serviceCenterProfiles, partSellerProfiles,
                   vehicles, nextVehicleId, subscriptions, nextUserId,
                   nextSubscriptionId, otpStore, now, inflight, issued>>
    /\ LET st == checkSetupStatusOn(DB, userId)
       IN  IF st = [error |-> "User not found"]
           THEN /\ UNCHANGED users
                /\ reply' = [op |-> "GET /auth/setup-status", code |-> 500,
                             userId |-> userId, thrown |-> st.error]
           ELSE /\ users' = [users EXCEPT ![userId].isRegistrationComplete =
                                              st.isRegistrationComplete]
                /\ reply' = [op |-> "GET /auth/setup-status", code |-> 200,
                             userId |-> userId, thrown |-> "",
                             setupStatus |-> st,
                             canAccessDashboard |-> Len(st.missingSteps) = 0,
                             nextStep |-> st.redirectTo]

\* auth.ts:352-371  GET /auth/setup-status
GetSetupStatus(userId) ==
    /\ NoWrite /\ UNCHANGED <<nextUserId, nextSubscriptionId, otpStore, now, inflight, issued>>
    /\ LET st == checkSetupStatus(userId)
       IN  IF st = UserNotFound
           THEN reply' = [op |-> "GET /auth/setup-status", code |-> 500,
                          userId |-> userId, thrown |-> st.error]
           ELSE reply' = [op |-> "GET /auth/setup-status", code |-> 200,
                          userId |-> userId, thrown |-> "",
                          setupStatus |-> st,
                          canAccessDashboard |-> Len(st.missingSteps) = 0,
                          nextStep |-> st.redirectTo]

\* A variant of GetUserStatus that takes any subscription row for an active
\* one.
GetUserStatus_AnyRow(userId) ==
    /\ NoWrite /\ UNCHANGED <<nextUserId, nextSubscriptionId, otpStore, now, inflight, issued>>
    /\ IF userId \notin DOMAIN users
       THEN reply' = [op |-> "GET /user/status", code |-> 404,
                      userId |-> userId, thrown |-> ""]
       ELSE LET user == users[userId]
                isSetupComplete ==
                    CASE user.role = "car_owner" ->
                            /\ userId \in carOwnerProfiles
                            /\ Cardinality({v \in vehicles :
                                               v.userId = userId}) > 0
                      [] user.role = "service_center" ->
                            userId \in serviceCenterProfiles
                      [] user.role = "part_seller" ->
                            userId \in partSellerProfiles
                      [] OTHER -> FALSE
                hasActiveSubscription ==
                    \E sub \in subscriptions :
                        sub.userId = userId /\ TRUE
            IN  reply' = [op |-> "GET /user/status", code |-> 200,
                          userId |-> userId, thrown |-> "",
                          role |-> user.role,
                          isSetupComplete |-> isSetupComplete,
                          hasActiveSubscription |-> hasActiveSubscription]

\* part_006:139-191  GET /user/status, which computes isSetupComplete and
\* hasActiveSubscription with its own copy of the expressions.
GetUserStatus(userId) ==
    /\ NoWrite /\ UNCHANGED <<nextUserId, nextSubscriptionId, otpStore, now, inflight, issued>>
    /\ IF userId \notin DOMAIN users
       THEN reply' = [op |-> "GET /user/status", code |-> 404,
                      userId |-> userId, thrown |-> ""]
       ELSE LET user == users[userId]
                isSetupComplete ==
                    CASE user.role = "car_owner" ->
                            /\ userId \in carOwnerProfiles
                            /\ Cardinality({v \in vehicles :
                                               v.userId = userId}) > 0
                      [] user.role = "service_center" ->
                            userId \in serviceCenterProfiles
                      [] user.role = "part_seller" ->
                            userId \in partSellerProfiles
                      [] OTHER -> FALSE
                hasActiveSubscription ==
                    \E sub \in subscriptions :
                        sub.userId = userId /\ sub.status = "active"
            IN  reply' = [op |-> "GET /user/status", code |-> 200,
                          userId |-> userId, thrown |-> "",
                          role |-> user.role,
                          isSetupComplete |-> isSetupComplete,
                          hasActiveSubscription |-> hasActiveSubscription]

\* A variant of SetupDetails whose writes are not wrapped in a transaction:
\* what was written before a failing create stays written.
SetupDetails_NoTransaction(userId, phone, role, pd) ==
    LET tx == SetupDetailsTx(DB, userId, phone, role, pd)
        d1 == [DB EXCEPT !.users[userId].phone = phone,
                         !.users[userId].role = role,
                         !.users[userId].isRegistrationComplete = TRUE]
        cv == CreateVehicles(vehicles, nextVehicleId, userId, pd.vehicles, 1)
    IN
    /\ UNCHANGED <<nextUserId, nextSubscriptionId, otpStore, now, inflight, issued>>
    /\ IF ~validateCompleteRegistrationData(phone, role, pd)
       THEN /\ NoWrite
            /\ reply' = Plain("POST /auth/setup/details", 400)
       ELSE IF userId \notin DOMAIN users
       THEN /\ NoWrite
            /\ reply' = Plain("POST /auth/setup/details", 404)
       ELSE IF ~tx.ok
       THEN /\ Commit(IF role = "car_owner" /\ userId \notin carOwnerProfiles
                      THEN [d1 EXCEPT !.carOwnerProfiles = @ \cup {userId},
                                      !.vehicles = cv.rows,
                                      !.nextVehicleId = cv.nextId]
                      ELSE d1)
            /\ reply' = Plain("POST /auth/setup/details", 500)
       ELSE /\ Commit(tx.db)
            /\ reply' = WithSetupStatus("POST /auth/setup/details", userId,
                                        checkSetupStatusOn(tx.db, userId))

\* auth.ts:374-484  POST /auth/setup/details
SetupDetails(userId, phone, role, pd) ==
    LET tx == SetupDetailsTx(DB, userId, phone, role, pd) IN
    /\ UNCHANGED <<nextUserId, nextSubscriptionId, otpStore, now, inflight, issued>>
    /\ IF ~validateCompleteRegistrationData(phone, role, pd)
       THEN /\ NoWrite
            /\ reply' = Plain("POST /auth/setup/details", 400)
       ELSE IF userId \notin DOMAIN users
       THEN /\ NoWrite
            /\ reply' = Plain("POST /auth/setup/details", 404)
       ELSE IF ~tx.ok
       THEN /\ NoWrite
            /\ reply' = Plain("POST /auth/setup/details", 500)
       ELSE /\ Commit(tx.db)
            /\ reply' = WithSetupStatus("POST /auth/setup/details", userId,
                                        checkSetupStatusOn(tx.db, userId))

\* auth.ts:684-722  POST /auth/onboarding.  A contact the body does not carry
\* leaves the phone column as it is.
Onboarding(userId, contact) ==
    /\ UNCHANGED <<nextUserId, nextSubscriptionId, otpStore, now, inflight, issued>>
    /\ IF userId \notin DOMAIN users
       THEN /\ NoWrite
            /\ reply' = Plain("POST /auth/onboarding", 404)
       ELSE IF users[userId].role # "car_owner"
       THEN /\ NoWrite
            /\ reply' = Plain("POST /auth/onboarding", 403)
       ELSE /\ users' = [users EXCEPT
                           ![userId].phone =
                               IF contact = UNDEFINED THEN @ ELSE contact,
                           ![userId].isRegistrationComplete = TRUE]
            /\ carOwnerProfiles' = carOwnerProfiles \cup {userId}
            /\ UNCHANGED <<serviceCenterProfiles, partSellerProfiles,
                           vehicles, nextVehicleId, subscriptions>>
            /\ reply' = Plain("POST /auth/onboarding", 200)

\* createServiceCenters.ts:9-88: the admin endpoint that creates a service
\* center or a car user, with its profile row.
CreateServiceCenters(userType, email, phone) ==
    LET scRow == [email |-> email, password |-> Hash(GoodPassword),
                  phone |-> phone, role |-> "service_center",
                  isRegistrationComplete |-> TRUE]
        carRow == [email |-> email, password |-> NULL,
                   phone |-> phone, role |-> "car_owner",
                   isRegistrationComplete |-> TRUE]
    IN
    /\ UNCHANGED <<nextSubscriptionId, otpStore, now, inflight, issued>>
    /\ IF userType \notin {"Service Centers", "Car Users"}
            \/ ~Truthy(email) \/ ~Truthy(phone)
            \/ UserIdsByEmail(DB, email) # {}
       THEN /\ NoWrite /\ UNCHANGED nextUserId
            /\ reply' = Plain("POST /create-service-centers", 400)
       ELSE /\ IF userType = "Service Centers"
               THEN Commit([WithUser(DB, nextUserId, scRow) EXCEPT
                               !.serviceCenterProfiles = @ \cup {nextUserId}])
               ELSE Commit([WithUser(DB, nextUserId, carRow) EXCEPT
                               !.carOwnerProfiles = @ \cup {nextUserId}])
            /\ nextUserId' = nextUserId + 1
            /\ reply' = Plain("POST /create-service-centers", 200)

\* createSparePartSellers.ts:8-66
CreateSparePartSellers(email, phone) ==
    LET row == [email |-> email, password |-> Hash(GoodPassword),
                phone |-> phone, role |-> "part_seller",
                isRegistrationComplete |-> TRUE]
    IN
    /\ UNCHANGED <<nextSubscriptionId, otpStore, now, inflight, issued>>
    /\ IF ~Truthy(email) \/ ~Truthy(phone) \/ UserIdsByEmail(DB, email) # {}
       THEN /\ NoWrite /\ UNCHANGED nextUserId
            /\ reply' = Plain("POST /create-spare-part-sellers", 400)
       ELSE /\ Commit([WithUser(DB, nextUserId, row) EXCEPT
                          !.partSellerProfiles = @ \cup {nextUserId}])
            /\ nextUserId' = nextUserId + 1
            /\ reply' = Plain("POST /create-spare-part-sellers", 200)

\* vehicles.ts:9-68  POST /users/:userId/vehicles
AddVehicle(authUserId, userId, plate) ==
    /\ UNCHANGED <<users, nextUserId, carOwnerProfiles, serviceCenterProfiles,
                   partSellerProfiles, subscriptions, nextSubscriptionId,
                   otpStore, now, inflight, issued>>
    /\ IF authUserId # userId
       THEN /\ UNCHANGED <<vehicles, nextVehicleId>>
            /\ reply' = Plain("POST /users/:userId/vehicles", 403)
       ELSE IF userId \notin DOMAIN users
                  \/ users[userId].role # "car_owner"
                  \/ ~Truthy(plate)
                  \/ \E v \in vehicles : v.licensePlate = plate
       THEN /\ UNCHANGED <<vehicles, nextVehicleId>>
            /\ reply' = Plain("POST /users/:userId/vehicles", 400)
       ELSE /\ vehicles' = vehicles \cup {[id |-> nextVehicleId,
                                           userId |-> userId,
                                           licensePlate |-> plate,
                                           isPrimary |-> FALSE]}
            /\ nextVehicleId' = nextVehicleId + 1
            /\ reply' = Plain("POST /users/:userId/vehicles", 200)

\* A variant of DeleteVehicle without the comparison of the token's user with
\* the path's user.
DeleteVehicle_NoOwnerCheck(authUserId, userId, vehicleId) ==
    /\ UNCHANGED <<users, nextUserId, carOwnerProfiles, serviceCenterProfiles,
                   partSellerProfiles, nextVehicleId, subscriptions,
                   nextSubscriptionId, otpStore, now, inflight, issued>>
    /\ IF ~\E v \in vehicles : v.id = vehicleId /\ v.userId = userId
       THEN /\ UNCHANGED vehicles
            /\ reply' = Plain("DELETE /users/:userId/vehicles/:vehicleId",
                              500)
       ELSE /\ vehicles' = {v \in vehicles : v.id # vehicleId}
            /\ reply' = Plain("DELETE /users/:userId/vehicles/:vehicleId",
                              200)

\* vehicles.ts:155-176  DELETE /users/:userId/vehicles/:vehicleId; the delete
\* throws when no row has both the id and the userId.
DeleteVehicle(authUserId, userId, vehicleId) ==
    /\ UNCHANGED <<users, nextUserId, carOwnerProfiles, serviceCenterProfiles,
                   partSellerProfiles, nextVehicleId, subscriptions,
                   nextSubscriptionId, otpStore, now, inflight, issued>>
    /\ IF authUserId # userId
       THEN /\ UNCHANGED vehicles
            /\ reply' = Plain("DELETE /users/:userId/vehicles/:vehicleId",
                              403)
       ELSE IF ~\E v \in vehicles : v.id = vehicleId /\ v.userId = userId
       THEN /\ UNCHANGED vehicles
            /\ reply' = Plain("DELETE /users/:userId/vehicles/:vehicleId",
                              500)
       ELSE /\ vehicles' = {v \in vehicles : v.id # vehicleId}
            /\ reply' = Plain("DELETE /users/:userId/vehicles/:vehicleId",
                              200)

\* A variant of CreateSubscription whose row waits for a payment confirmation.
CreateSubscription_Pending(authUserId) ==
    /\ UNCHANGED <<users, nextUserId, carOwnerProfiles, serviceCenterProfiles,
                   partSellerProfiles, vehicles, nextVehicleId, otpStore, now, inflight, issued>>
    /\ IF \E s \in subscriptions : s.userId = authUserId
       THEN /\ UNCHANGED <<subscriptions, nextSubscriptionId>>
            /\ reply' = Plain("POST /subscriptions", 400)
       ELSE IF authUserId \notin DOMAIN users
       THEN /\ UNCHANGED <<subscriptions, nextSubscriptionId>>
            /\ reply' = Plain("POST /subscriptions", 500)
       ELSE /\ subscriptions' = subscriptions \cup
                                    {[id |-> nextSubscriptionId,
                                      userId |-> authUserId,
                                      status |-> "pending"]}
            /\ nextSubscriptionId' = nextSubscriptionId + 1
            /\ reply' = Plain("POST /subscriptions", 200)

\* subscriptions.ts:8-35  POST /subscriptions.  The create throws when the
\* token's account is gone (the userId foreign key, part_002:106) or when the
\* user already owns a row (userId @unique, part_002:97).
CreateSubscription(authUserId) ==
    /\ UNCHANGED <<users, nextUserId, carOwnerProfiles, serviceCenterProfiles,
                   partSellerProfiles, vehicles, nextVehicleId, otpStore, now, inflight, issued>>
    /\ IF \E s \in subscriptions : s.userId = authUserId
       THEN /\ UNCHANGED <<subscriptions, nextSubscriptionId>>
            /\ reply' = Plain("POST /subscriptions", 400)
       ELSE IF authUserId \notin DOMAIN users
       THEN /\ UNCHANGED <<subscriptions, nextSubscriptionId>>
            /\ reply' = Plain("POST /subscriptions", 500)
       ELSE /\ subscriptions' = subscriptions \cup
                                    {[id |-> nextSubscriptionId,
                                      userId |-> authUserId,
                                      status |-> "active"]}
            /\ nextSubscriptionId' = nextSubscriptionId + 1
            /\ reply' = Plain("POST /subscriptions", 200)

\* subscriptions.ts:53-78  PUT /subscriptions/:id; a status the body does not
\* carry keeps the stored one.
UpdateSubscription(authUserId, id, status) ==
    /\ UNCHANGED <<users, nextUserId, carOwnerProfiles, serviceCenterProfiles,
                   partSellerProfiles, vehicles, nextVehicleId,
                   nextSubscriptionId, otpStore, now, inflight, issued>>
    /\ IF ~\E s \in subscriptions : s.id = id
       THEN /\ UNCHANGED subscriptions
            /\ reply' = Plain("PUT /subscriptions/:id", 404)
       ELSE LET sub == CHOOSE s \in subscriptions : s.id = id
            IN  IF sub.userId # authUserId
                THEN /\ UNCHANGED subscriptions
                     /\ reply' = Plain("PUT /subscriptions/:id", 403)
                ELSE /\ subscriptions' =
                            (subscriptions \ {sub}) \cup
                            {[sub EXCEPT !.status =
                                  IF Truthy(status) THEN status ELSE @]}
                     /\ reply' = Plain("PUT /subscriptions/:id", 200)

\* subscriptions.ts:80-94  DELETE /subscriptions/:id
DeleteSubscription(authUserId, id) ==
    /\ UNCHANGED <<users, nextUserId, carOwnerProfiles, serviceCenterProfiles,
                   partSellerProfiles, vehicles, nextVehicleId,
                   nextSubscriptionId, otpStore, now, inflight, issued>>
    /\ IF ~\E s \in subscriptions : s.id = id
       THEN /\ UNCHANGED subscriptions
            /\ reply' = Plain("DELETE /subscriptions/:id", 404)
       ELSE LET sub == CHOOSE s \in subscriptions : s.id = id
            IN  IF sub.userId # authUserId
                THEN /\ UNCHANGED subscriptions
                     /\ reply' = Plain("DELETE /subscriptions/:id", 403)
                ELSE /\ subscriptions' = subscriptions \ {sub}
                     /\ reply' = Plain("DELETE /subscriptions/:id", 200)

\* POST /subscriptions as the two awaits it is made of, so that requests can
\* interleave.  rid names the request; at most MaxInflight of them are between
\* their check and their create.
MaxInflight == 2
FreeRid(rid) ==
    /\ rid \in 1..MaxInflight
    /\ \A r \in inflight : r.rid # rid
    /\ \A j \in 1..(rid - 1) : \E r \in inflight : r.rid = j

\* subscriptions.ts:14-15: the existence check.  A request that finds no row
\* goes on to the create; no response is sent yet.
SubscriptionCheck(authUserId, rid) ==
    /\ FreeRid(rid)
    /\ UNCHANGED <<users, nextUserId, carOwnerProfiles, serviceCenterProfiles,
                   partSellerProfiles, vehicles, nextVehicleId, subscriptions,
                   nextSubscriptionId, otpStore, now, issued>>
    /\ IF \E s \in subscriptions : s.userId = authUserId
       THEN /\ UNCHANGED inflight
            /\ reply' = [op |-> "POST /subscriptions", code |-> 400,
                         userId |-> authUserId, thrown |-> ""]
       ELSE /\ inflight' = inflight \cup {[rid |-> rid, userId |-> authUserId]}
            /\ UNCHANGED reply

\* A variant of SubscriptionCreate on a table without the unique userId.
SubscriptionCreate_NoUnique(rid) ==
    /\ \E r \in inflight : r.rid = rid
    /\ LET r == CHOOSE q \in inflight : q.rid = rid IN
       /\ inflight' = inflight \ {r}
       /\ UNCHANGED <<users, nextUserId, carOwnerProfiles,
                      serviceCenterProfiles, partSellerProfiles, vehicles,
                      nextVehicleId, otpStore, now, issued>>
       /\ IF r.userId \notin DOMAIN users
          THEN /\ UNCHANGED <<subscriptions, nextSubscriptionId>>
               /\ reply' = [op |-> "POST /subscriptions", code |-> 500,
                            userId |-> r.userId, thrown |-> ""]
          ELSE /\ subscriptions' = subscriptions \cup
                                       {[id |-> nextSubscriptionId,
                                         userId |-> r.userId,
                                         status |-> "active"]}
               /\ nextSubscriptionId' = nextSubscriptionId + 1
               /\ reply' = [op |-> "POST /subscriptions", code |-> 200,
                            userId |-> r.userId, thrown |-> ""]

\* subscriptions.ts:16-34: the create of a request that passed the check.  It
\* throws, and the catch block answers 500, when the account is gone (the
\* userId foreign key, part_002:106) or when a row of the user has appeared
\* since the check (userId @unique, part_002:97).
SubscriptionCreate(rid) ==
    /\ \E r \in inflight : r.rid = rid
    /\ LET r == CHOOSE q \in inflight : q.rid = rid IN
       /\ inflight' = inflight \ {r}
       /\ UNCHANGED <<users, nextUserId, carOwnerProfiles,
                      serviceCenterProfiles, partSellerProfiles, vehicles,
                      nextVehicleId, otpStore, now, issued>>
       /\ IF r.userId \notin DOMAIN users
               \/ \E s \in subscriptions : s.userId = r.userId
          THEN /\ UNCHANGED <<subscriptions, nextSubscriptionId>>
               /\ reply' = [op |-> "POST /subscriptions", code |-> 500,
                            userId |-> r.userId, thrown |-> ""]
          ELSE /\ subscriptions' = subscriptions \cup
                                       {[id |-> nextSubscriptionId,
                                         userId |-> r.userId,
                                         status |-> "active"]}
               /\ nextSubscriptionId' = nextSubscriptionId + 1
               /\ reply' = [op |-> "POST /subscriptions", code |-> 200,
                            userId |-> r.userId, thrown |-> ""]

\* A variant of UpdateVehicle whose update looks the row up by its id alone.
UpdateVehicle_AnyOwner(authUserId, userId, vehicleId, plate, isPrimary) ==
    /\ UNCHANGED <<users, nextUserId, carOwnerProfiles, serviceCenterProfiles,
                   partSellerProfiles, nextVehicleId, subscriptions,
                   nextSubscriptionId, otpStore, now, inflight, issued>>
    /\ IF authUserId # userId
       THEN /\ UNCHANGED vehicles
            /\ reply' = Plain("PUT /users/:userId/vehicles/:vehicleId", 403)
       ELSE IF ~Truthy(plate)
       THEN /\ UNCHANGED vehicles
            /\ reply' = Plain("PUT /users/:userId/vehicles/:vehicleId", 400)
       ELSE IF \/ ~\E v \in vehicles : v.id = vehicleId
               \/ \E v \in vehicles : v.id # vehicleId /\ v.licensePlate = plate
       THEN /\ UNCHANGED vehicles
            /\ reply' = Plain("PUT /users/:userId/vehicles/:vehicleId", 500)
       ELSE /\ vehicles' = {IF v.id = vehicleId
                            THEN [v EXCEPT !.licensePlate = plate,
                                           !.isPrimary =
                                              IF isPrimary = << >>
                                              THEN @ ELSE isPrimary[1]]
                            ELSE v : v \in vehicles}
            /\ reply' = Plain("PUT /users/:userId/vehicles/:vehicleId", 200)

\* vehicles.ts:113-152  PUT /users/:userId/vehicles/:vehicleId, for a
\* vehicleData with the licence plate plate and the other fields
\* validateVehicleData asks for; isPrimary is <<TRUE>> or <<FALSE>> when the
\* body carries the field and << >> when it does not, which leaves the column
\* as it is.  The update throws when no row
\* has both the id and the userId, and when another row holds the plate
\* (part_002:51).
UpdateVehicle(authUserId, userId, vehicleId, plate, isPrimary) ==
    /\ UNCHANGED <<users, nextUserId, carOwnerProfiles, serviceCenterProfiles,
                   partSellerProfiles, nextVehicleId, subscriptions,
                   nextSubscriptionId, otpStore, now, inflight, issued>>
    /\ IF authUserId # userId
       THEN /\ UNCHANGED vehicles
            /\ reply' = Plain("PUT /users/:userId/vehicles/:vehicleId", 403)
       ELSE IF ~Truthy(plate)
       THEN /\ UNCHANGED vehicles
            /\ reply' = Plain("PUT /users/:userId/vehicles/:vehicleId", 400)
       ELSE IF \/ ~\E v \in vehicles : v.id = vehicleId /\ v.userId = userId
               \/ \E v \in vehicles : v.id # vehicleId /\ v.licensePlate = plate
       THEN /\ UNCHANGED vehicles
            /\ reply' = Plain("PUT /users/:userId/vehicles/:vehicleId", 500)
       ELSE /\ vehicles' = {IF v.id = vehicleId
                            THEN [v EXCEPT !.licensePlate = plate,
                                           !.isPrimary =
                                              IF isPrimary = << >>
                                              THEN @ ELSE isPrimary[1]]
                            ELSE v : v \in vehicles}
            /\ reply' = Plain("PUT /users/:userId/vehicles/:vehicleId", 200)

\* vehicles.ts:189-192: updateMany sets isPrimary false on the rows of userId.
ResetPrimary(vrows, userId) ==
    {IF v.userId = userId THEN [v EXCEPT !.isPrimary = FALSE] ELSE v :
        v \in vrows}

\* vehicles.ts:179-211  PATCH /users/:userId/vehicles/:vehicleId/primary, run
\* without another request in between.  The reset of the user's flags is
\* written before the update that throws when no row has both the id and the
\* userId.
SetPrimary(authUserId, userId, vehicleId) ==
    /\ UNCHANGED <<users, nextUserId, carOwnerProfiles, serviceCenterProfiles,
                   partSellerProfiles, nextVehicleId, subscriptions,
                   nextSubscriptionId, otpStore, now, inflight, issued>>
    /\ IF authUserId # userId
       THEN /\ UNCHANGED vehicles
            /\ reply' = Plain("PATCH /users/:userId/vehicles/:vehicleId/primary", 403)
       ELSE IF ~\E v \in vehicles : v.id = vehicleId /\ v.userId = userId
       THEN /\ vehicles' = ResetPrimary(vehicles, userId)
            /\ reply' = Plain("PATCH /users/:userId/vehicles/:vehicleId/primary", 500)
       ELSE /\ vehicles' = {IF v.id = vehicleId
                            THEN [v EXCEPT !.isPrimary = TRUE]
                            ELSE v : v \in ResetPrimary(vehicles, userId)}
            /\ reply' = Plain("PATCH /users/:userId/vehicles/:vehicleId/primary", 200)

\* The same PATCH as the two awaits it is made of, so that requests can
\* interleave: vehicles.ts:181-192, the owner check and the reset, after which
\* the request rid waits for its update ...
PrimaryReset(authUserId, userId, vehicleId, rid) ==
    /\ FreeRid(rid)
    /\ UNCHANGED <<users, nextUserId, carOwnerProfiles, serviceCenterProfiles,
                   partSellerProfiles, nextVehicleId, subscriptions,
                   nextSubscriptionId, otpStore, now, issued>>
    /\ IF authUserId # userId
       THEN /\ UNCHANGED <<vehicles, inflight>>
            /\ reply' = Plain("PATCH /users/:userId/vehicles/:vehicleId/primary", 403)
       ELSE /\ vehicles' = ResetPrimary(vehicles, userId)
            /\ inflight' = inflight \cup {[rid |-> rid, userId |-> userId,
                                           vehicleId |-> vehicleId]}
            /\ UNCHANGED reply

\* ... and vehicles.ts:194-210, the update of the named row and the response.
PrimarySet(rid) ==
    /\ \E r \in inflight : r.rid = rid
    /\ UNCHANGED <<users, nextUserId, carOwnerProfiles, serviceCenterProfiles,
                   partSellerProfiles, nextVehicleId, subscriptions,
                   nextSubscriptionId, otpStore, now, issued>>
    /\ LET r == CHOOSE q \in inflight : q.rid = rid IN
       /\ inflight' = inflight \ {r}
       /\ IF ~\E v \in vehicles : v.id = r.vehicleId /\ v.userId = r.userId
          THEN /\ UNCHANGED vehicles
               /\ reply' = Plain("PATCH /users/:userId/vehicles/:vehicleId/primary", 500)
          ELSE /\ vehicles' = {IF v.id = r.vehicleId
                               THEN [v EXCEPT !.isPrimary = TRUE]
                               ELSE v : v \in vehicles}
               /\ reply' = Plain("PATCH /users/:userId/vehicles/:vehicleId/primary", 200)

\* profiles.ts:68-135  PUT /profiles/:userId.  For a car owner the phone is
\* written first; the update of the profile row that follows throws when the
\* account has none, and the phone stays written.
UpdateProfile(authUserId, userId, phone) ==
    /\ UNCHANGED <<nextUserId, carOwnerProfiles, serviceCenterProfiles,
                   partSellerProfiles, vehicles, nextVehicleId, subscriptions,
                   nextSubscriptionId, otpStore, now, inflight, issued>>
    /\ IF ~Truthy(phone)
       THEN /\ UNCHANGED users
            /\ reply' = Plain("PUT /profiles/:userId", 400)
       ELSE IF authUserId # userId
       THEN /\ UNCHANGED users
            /\ reply' = Plain("PUT /profiles/:userId", 403)
       ELSE IF userId \notin DOMAIN users
       THEN /\ UNCHANGED users
            /\ reply' = Plain("PUT /profiles/:userId", 404)
       ELSE IF users[userId].role # "car_owner"
       THEN /\ UNCHANGED users
            /\ reply' = Plain("PUT /profiles/:userId", 200)
       ELSE /\ users' = [users EXCEPT ![userId].phone = phone]
            /\ reply' = Plain("PUT /profiles/:userId",
                              IF userId \in carOwnerProfiles THEN 200 ELSE 500)

\* auth.ts:724-740  DELETE /auth/delete-account: two separate deletes.  The
\* first throws when the user has no CarOwnerProfile row.  The second throws
\* while a ServiceCenterProfile, PartSellerProfile or Subscription row still
\* refers to the user (part_002:76, 92, 106: no onDelete, so the delete is
\* restricted); otherwise it removes the user and, by cascade (part_002:42,
\* 61), the user's vehicles.
DeleteAccount(authUserId) ==
    /\ UNCHANGED <<nextUserId, nextVehicleId, nextSubscriptionId, otpStore, now,
                   inflight, issued,
                   serviceCenterProfiles, partSellerProfiles, subscriptions>>
    /\ IF authUserId \notin carOwnerProfiles
       THEN /\ UNCHANGED <<users, carOwnerProfiles, vehicles>>
            /\ reply' = Plain("DELETE /auth/delete-account", 500)
       ELSE /\ carOwnerProfiles' = carOwnerProfiles \ {authUserId}
            /\ IF authUserId \in serviceCenterProfiles
                    \/ authUserId \in partSellerProfiles
                    \/ \E s \in subscriptions : s.userId = authUserId
               THEN /\ UNCHANGED <<users, vehicles>>
                    /\ reply' = Plain("DELETE /auth/delete-account", 500)
               ELSE /\ users' = [i \in (DOMAIN users) \ {authUserId} |-> users[i]]
                    /\ vehicles' = {v \in vehicles : v.userId # authUserId}
                    /\ reply' = Plain("DELETE /auth/delete-account", 200)

\* auth.ts:753: the lifetime of a code.
OtpTtlMs == 10 * 60 * 1000

\* A variant of ForgotPassword that keeps a code that has not expired.
ForgotPassword_KeepFirst(email, otp) ==
    /\ NoWrite /\ UNCHANGED <<nextUserId, nextSubscriptionId, now, inflight, issued>>
    /\ IF ~Truthy(email)
       THEN /\ UNCHANGED otpStore
            /\ reply' = Plain("POST /auth/forgot-password", 400)
       ELSE IF UserIdsByEmail(DB, email) = {}
       THEN /\ UNCHANGED otpStore
            /\ reply' = Plain("POST /auth/forgot-password", 404)
       ELSE IF email \in DOMAIN otpStore /\ now <= otpStore[email].expires
       THEN /\ UNCHANGED otpStore
            /\ reply' = Plain("POST /auth/forgot-password", 200)
       ELSE /\ otpStore' = [e \in (DOMAIN otpStore) \cup {email} |->
                               IF e = email
                               THEN [otp |-> otp, expires |-> now + OtpTtlMs]
                               ELSE otpStore[e]]
            /\ reply' = Plain("POST /auth/forgot-password", 200)

\* auth.ts:742-764  POST /auth/forgot-password; otp is the six-digit code the
\* handler draws.
ForgotPassword(email, otp) ==
    /\ NoWrite /\ UNCHANGED <<nextUserId, nextSubscriptionId, now, inflight, issued>>
    /\ IF ~Truthy(email)
       THEN /\ UNCHANGED otpStore
            /\ reply' = Plain("POST /auth/forgot-password", 400)
       ELSE IF UserIdsByEmail(DB, email) = {}
       THEN /\ UNCHANGED otpStore
            /\ reply' = Plain("POST /auth/forgot-password", 404)
       ELSE /\ otpStore' = [e \in (DOMAIN otpStore) \cup {email} |->
                               IF e = email
                               THEN [otp |-> otp, expires |-> now + OtpTtlMs]
                               ELSE otpStore[e]]
            /\ reply' = Plain("POST /auth/forgot-password", 200)

\* auth.ts:775: the payload and the lifetime of the reset token jwt.sign makes.
ResetTtlMs == 15 * 60 * 1000
ResetToken(email) == [type |-> "reset", email |-> email, userId |-> 0, exp |-> now + ResetTtlMs]

\* auth.ts:21-30: the payload of a session token of user userId, which has
\* neither an email nor a type, as signed now.
SessionTtlMs == 24 * 60 * 60 * 1000
SessionToken(userId) == [type |-> UNDEFINED, email |-> UNDEFINED, userId |-> userId, exp |-> now + SessionTtlMs]

\* A variant of VerifyOtp that keeps the entry it has verified.
VerifyOtp_KeepEntry(email, otp) ==
    /\ NoWrite /\ UNCHANGED <<nextUserId, nextSubscriptionId, now, inflight>>
    /\ UNCHANGED otpStore
    /\ IF email \notin DOMAIN otpStore
            \/ otpStore[email].otp # otp
            \/ now > otpStore[email].expires
       THEN /\ UNCHANGED issued
            /\ reply' = Plain("POST /auth/verify-otp", 400)
       ELSE /\ issued' = issued \cup {ResetToken(email)}
            /\ reply' = [op |-> "POST /auth/verify-otp", code |-> 200,
                         userId |-> 0, thrown |-> "",
                         resetToken |-> ResetToken(email)]

\* A variant of VerifyOtp that sweeps an expired entry when it refuses it.
VerifyOtp_SweepExpired(email, otp) ==
    /\ NoWrite /\ UNCHANGED <<nextUserId, nextSubscriptionId, now, inflight>>
    /\ IF email \notin DOMAIN otpStore
       THEN /\ UNCHANGED <<otpStore, issued>>
            /\ reply' = Plain("POST /auth/verify-otp", 400)
       ELSE IF now > otpStore[email].expires
       THEN /\ otpStore' = [e \in (DOMAIN otpStore) \ {email} |-> otpStore[e]]
            /\ UNCHANGED issued
            /\ reply' = Plain("POST /auth/verify-otp", 400)
       ELSE IF otpStore[email].otp # otp
       THEN /\ UNCHANGED <<otpStore, issued>>
            /\ reply' = Plain("POST /auth/verify-otp", 400)
       ELSE /\ otpStore' = [e \in (DOMAIN otpStore) \ {email} |-> otpStore[e]]
            /\ issued' = issued \cup {ResetToken(email)}
            /\ reply' = [op |-> "POST /auth/verify-otp", code |-> 200,
                         userId |-> 0, thrown |-> "",
                         resetToken |-> ResetToken(email)]

\* auth.ts:766-777  POST /auth/verify-otp
VerifyOtp(email, otp) ==
    /\ NoWrite /\ UNCHANGED <<nextUserId, nextSubscriptionId, now, inflight>>
    /\ IF email \notin DOMAIN otpStore
            \/ otpStore[email].otp # otp
            \/ now > otpStore[email].expires
       THEN /\ UNCHANGED <<otpStore, issued>>
            /\ reply' = Plain("POST /auth/verify-otp", 400)
       ELSE /\ otpStore' = [e \in (DOMAIN otpStore) \ {email} |-> otpStore[e]]
            /\ issued' = issued \cup {ResetToken(email)}
            /\ reply' = [op |-> "POST /auth/verify-otp", code |-> 200,
                         userId |-> 0, thrown |-> "",
                         resetToken |-> ResetToken(email)]

\* jwt.verify(token, JWT_SECRET): the token carries the server's signature,
\* which the reset tokens verify-otp has issued and the session tokens of the
\* accounts do, and its exp has not been reached.
JwtVerify(token) ==
    /\ \/ token \in issued
       \/ token.type = UNDEFINED /\ token.userId \in TokenUserIds
    /\ now < token.exp

\* A variant of ResetPassword that accepts every token jwt.verify accepts.
ResetPassword_AnyToken(email, password, token) ==
    /\ UNCHANGED <<nextUserId, carOwnerProfiles, serviceCenterProfiles,
                   partSellerProfiles, vehicles, nextVehicleId, subscriptions,
                   nextSubscriptionId, otpStore, now, inflight, issued>>
    /\ IF \/ ~JwtVerify(token)
          \/ ~Truthy(password)
          \/ UserIdsByEmail(DB, email) = {}
       THEN /\ UNCHANGED users
            /\ reply' = Plain("POST /auth/reset-password", 400)
       ELSE /\ users' = [u \in DOMAIN users |->
                            IF users[u].email = email
                            THEN [users[u] EXCEPT !.password = Hash(password)]
                            ELSE users[u]]
            /\ reply' = [op |-> "POST /auth/reset-password", code |-> 200,
                         userId |-> 0, thrown |-> ""]

\* auth.ts:779-795  POST /auth/reset-password.  Every throw inside the try
\* (jwt.verify on a bad or expired token, bcrypt.hash on a missing password,
\* the update of a user that does not exist) ends in the catch block's 400.
ResetPassword(email, password, token) ==
    /\ UNCHANGED <<nextUserId, carOwnerProfiles, serviceCenterProfiles,
                   partSellerProfiles, vehicles, nextVehicleId, subscriptions,
                   nextSubscriptionId, otpStore, now, inflight, issued>>
    /\ IF \/ ~JwtVerify(token)
          \/ token.email # email
          \/ token.type # "reset"
          \/ ~Truthy(password)
          \/ UserIdsByEmail(DB, email) = {}
       THEN /\ UNCHANGED users
            /\ reply' = Plain("POST /auth/reset-password", 400)
       ELSE /\ users' = [u \in DOMAIN users |->
                            IF users[u].email = email
                            THEN [users[u] EXCEPT !.password = Hash(password)]
                            ELSE users[u]]
            /\ reply' = [op |-> "POST /auth/reset-password", code |-> 200,
                         userId |-> 0, thrown |-> ""]

\* The passing of d milliseconds.
Tick(d) ==
    /\ now' = now + d
    /\ UNCHANGED <<users, nextUserId, carOwnerProfiles, serviceCenterProfiles,
                   partSellerProfiles, vehicles, nextVehicleId, subscriptions,
                   nextSubscriptionId, otpStore, inflight, issued, reply>>

\* ------------------------------------------------------------ specification

NoReply == [op |-> "", code |-> 0, userId |-> 0, thrown |-> ""]

Init ==
    /\ users = << >>
    /\ nextUserId = 1
    /\ carOwnerProfiles = {}
    /\ serviceCenterProfiles = {}
    /\ partSellerProfiles = {}
    /\ vehicles = {}
    /\ nextVehicleId = 1
    /\ subscriptions = {}
    /\ nextSubscriptionId = 1
    /\ otpStore = << >>
    /\ now = 0
    /\ inflight = {}
    /\ issued = {}
    /\ reply = NoReply

\* The requests of the setup flow.  One address is enough to take an account
\* through every role, phone, profile, vehicle and subscription state, and to
\* delete it and register it again under a new id.
SetupEmails == {"a@x.io"}
Phones == {UNDEFINED, "", GoodPhone}

RegisterBody(email, password, phone, role, isMobile, pd) ==
    [email |-> email, password |-> password, phone |-> phone, role |-> role,
     isMobile |-> isMobile, pd |-> pd]
RegisterBodies ==
    {RegisterBody(e, GoodPassword, ph, r, FALSE, NoProfileData) :
        e \in SetupEmails, ph \in Phones,
        r \in ValidRoles \cup {UNDEFINED, "", "admin"}}
    \cup {RegisterBody(e, GoodPassword, ph, "service_center", FALSE, pd) :
        e \in SetupEmails, ph \in Phones,
        pd \in {EmptyProfileData, BusinessProfileData}}
    \cup {RegisterBody(e, GoodPassword, ph, "part_seller", FALSE, pd) :
        e \in SetupEmails, ph \in Phones,
        pd \in {EmptyProfileData, ShopProfileData}}
    \cup {RegisterBody(e, GoodPassword, ph, r, TRUE, NoProfileData) :
        e \in SetupEmails, ph \in Phones, r \in {UNDEFINED, "service_center"}}
    \cup {RegisterBody(BadEmail, GoodPassword, GoodPhone, "car_owner", FALSE,
                       NoProfileData),
          RegisterBody("a@x.io", "short", GoodPhone, "car_owner", FALSE,
                       NoProfileData),
          RegisterBody("a@x.io", UNDEFINED, GoodPhone, "car_owner", FALSE,
                       NoProfileData)}

SetupBody(phone, role, pd) == [phone |-> phone, role |-> role, pd |-> pd]
SetupBodies ==
    {SetupBody(GoodPhone, "car_owner", VehiclesProfileData(vs)) :
        vs \in VehicleLists}
    \cup {SetupBody(GoodPhone, r, pd) :
        r \in {"service_center", "part_seller"},
        pd \in {BusinessProfileData, ShopProfileData}}
    \cup {SetupBody(GoodPhone, "car_owner", NoProfileData),
          SetupBody(ShortPhone, "service_center", BusinessProfileData),
          SetupBody(GoodPhone, "admin", EmptyProfileData)}

Next ==
    \/ \E b \in RegisterBodies :
            /\ nextUserId <= MaxUserId
            /\ Register(b.email, b.password, b.phone, b.role, b.isMobile, b.pd)
    \/ \E email \in SetupEmails, password \in {GoodPassword, "wrongpass"},
          notified \in BOOLEAN :
            Login(email, password, notified)
    \/ \E email \in SetupEmails :
            /\ nextUserId <= MaxUserId
            /\ GoogleLogin(email)
    \/ \E u \in TokenUserIds : GetSetupStatus(u)
    \/ \E u \in TokenUserIds, b \in SetupBodies :
            /\ SetupDetails(u, b.phone, b.role, b.pd)
            /\ nextVehicleId' <= MaxVehicleId + 1
    \/ \E u \in TokenUserIds, contact \in Phones : Onboarding(u, contact)
    \/ \E userType \in {"Service Centers", "Car Users", UNDEFINED},
          email \in SetupEmails, phone \in {UNDEFINED, GoodPhone} :
            /\ nextUserId <= MaxUserId
            /\ CreateServiceCenters(userType, email, phone)
    \/ \E email \in SetupEmails, phone \in {UNDEFINED, GoodPhone} :
            /\ nextUserId <= MaxUserId
            /\ CreateSparePartSellers(email, phone)
    \/ \E u \in TokenUserIds, plate \in Plates :
            /\ nextVehicleId <= MaxVehicleId
            /\ AddVehicle(u, u, plate)
    \/ \E u \in TokenUserIds, v \in 1..MaxVehicleId : DeleteVehicle(u, u, v)
    \/ \E a \in TokenUserIds :
            /\ nextSubscriptionId <= MaxSubscriptionId
            /\ CreateSubscription(a)
    \/ \E a \in TokenUserIds, id \in 1..MaxSubscriptionId,
          status \in Statuses \cup {UNDEFINED} :
            UpdateSubscription(a, id, status)
    \/ \E a \in TokenUserIds, id \in 1..MaxSubscriptionId :
            DeleteSubscription(a, id)
    \/ \E a \in TokenUserIds : DeleteAccount(a)

Spec == Init /\ [][Next]_vars

\* ------------------------------------------------------------------ claims

\* The routes whose 200 response carries the result of checkSetupStatus.
SetupOps == {"POST /auth/register", "POST /auth/login", "POST /auth/google",
             "GET /auth/setup-status", "POST /auth/setup/details"}

\* The last request was answered with a setup status.  That status was computed
\* on the rows of this very state: the handler's writes precede the call, and
\* any later request replaces the reply.
HasStatus == reply.op \in SetupOps /\ reply.code = 200

\* The account the status is about, its rows, and the status.
Acc == users[reply.userId]
St == reply.setupStatus
AccVehicles == {v \in vehicles : v.userId = reply.userId}
AccSubscriptions == {s \in subscriptions : s.userId = reply.userId}
Steps == {St.missingSteps[i] : i \in 1..Len(St.missingSteps)}

C2_SetupCompleteByRole ==
    HasStatus =>
        /\ Acc.role = "car_owner" =>
             (St.isSetupComplete
                <=> (reply.userId \in carOwnerProfiles /\ AccVehicles # {}))
        /\ Acc.role = "service_center" =>
             (St.isSetupComplete <=> reply.userId \in serviceCenterProfiles)
        /\ Acc.role = "part_seller" =>
             (St.isSetupComplete <=> reply.userId \in partSellerProfiles)

\* A car owner who has vehicles and a profile row of another variant, but no
\* car-owner profile row, was told that setup is not complete.
C2_Witness ==
    /\ HasStatus
    /\ Acc.role = "car_owner"
    /\ reply.userId \notin carOwnerProfiles
    /\ reply.userId \in serviceCenterProfiles \cup partSellerProfiles
    /\ AccVehicles # {}
    /\ ~St.isSetupComplete

\* C3: hasActiveSubscription is true iff the account has a subscription row
\* whose status is exactly 'active'; with no row, or a cancelled or expired
\* one, it is false, for every role.
C3_ActiveSubscription ==
    HasStatus =>
        /\ St.hasActiveSubscription
             <=> (\E s \in subscriptions :
                     s.userId = reply.userId /\ s.status = "active")
        /\ AccSubscriptions = {} => ~St.hasActiveSubscription
        /\ (\A s \in AccSubscriptions : s.status \in {"cancelled", "expired"})
             => ~St.hasActiveSubscription

\* An account whose only subscription row is expired was told that it has no
\* active subscription.
C3_Witness ==
    /\ HasStatus
    /\ AccSubscriptions # {}
    /\ \A s \in AccSubscriptions : s.status = "expired"
    /\ ~St.hasActiveSubscription

\* C4: 'payment' is in missingSteps iff the role is service_center or
\* part_seller and hasActiveSubscription is false; a car_owner never has it,
\* whatever its subscription row.
C4_PaymentStep ==
    HasStatus =>
        /\ "payment" \in Steps
             <=> (Acc.role \in {"service_center", "part_seller"}
                    /\ ~St.hasActiveSubscription)
        /\ Acc.role = "car_owner" => "payment" \notin Steps

\* A car owner whose subscription row is not active was told nothing about
\* payment.
C4_Witness ==
    /\ HasStatus
    /\ Acc.role = "car_owner"
    /\ \E s \in AccSubscriptions : s.status # "active"
    /\ ~St.hasActiveSubscription
    /\ "payment" \notin Steps

\* C5: 'profile' is in missingSteps iff isSetupComplete is false; a car_owner
\* with a car-owner profile row and no vehicle has isSetupComplete false and
\* 'profile' in missingSteps.
C5_ProfileStep ==
    HasStatus =>
        /\ "profile" \in Steps <=> ~St.isSetupComplete
        /\ (Acc.role = "car_owner" /\ reply.userId \in carOwnerProfiles
              /\ AccVehicles = {})
             => (~St.isSetupComplete /\ "profile" \in Steps)

\* A car owner with a profile row and no vehicle was sent to the profile step.
C5_Witness ==
    /\ HasStatus
    /\ Acc.role = "car_owner" /\ reply.userId \in carOwnerProfiles
    /\ AccVehicles = {}
    /\ "profile" \in Steps

\* C6: redirectTo is assigned last-write-wins: whenever 'payment' is missing it
\* is '/setup/payment', even if 'registration' or 'profile' is missing too; it
\* is '/setup/details' only when a registration or profile step is missing and
\* 'payment' is not.
C6_RedirectLastWriteWins ==
    HasStatus =>
        /\ "payment" \in Steps => St.redirectTo = "/setup/payment"
        /\ St.redirectTo = "/setup/details"
             <=> (({"registration", "profile"} \cap Steps) # {}
                    /\ "payment" \notin Steps)

\* A service center without phone, profile and subscription was sent to the
\* payment step, with all three steps missing.
C6_Witness ==
    /\ HasStatus
    /\ Acc.role = "service_center" /\ Acc.phone = NULL
    /\ reply.userId \notin serviceCenterProfiles
    /\ AccSubscriptions = {}
    /\ St.missingSteps = <<"registration", "profile", "payment">>
    /\ St.redirectTo = "/setup/payment"

StepRank(step) ==
    CASE step = "registration" -> 1
      [] step = "profile" -> 2
      [] step = "payment" -> 3
      [] OTHER -> 0

\* C8: missingSteps holds each of 'registration', 'profile', 'payment' at most
\* once and in that order, and nothing else.
C8_StepsOrdered ==
    HasStatus =>
        /\ \A i \in 1..Len(St.missingSteps) : StepRank(St.missingSteps[i]) > 0
        /\ \A i, j \in 1..Len(St.missingSteps) :
             i < j => StepRank(St.missingSteps[i]) < StepRank(St.missingSteps[j])

\* A status with the steps 'profile' and 'payment', in that order.
C8_Witness ==
    /\ HasStatus
    /\ St.missingSteps = <<"profile", "payment">>

\* C9: checkSetupStatus fails with 'User not found' iff the id resolves to no
\* account; for an existing account, whatever its rows, it returns a status
\* and raises nothing.
C9_NotFoundIffNoAccount ==
    reply.op = "GET /auth/setup-status" =>
        /\ reply.thrown = "User not found" <=> reply.userId \notin DOMAIN users
        /\ reply.userId \in DOMAIN users
             => (reply.code = 200 /\ reply.thrown = ""
                   /\ St = checkSetupStatus(reply.userId))

\* The status of a deleted account was asked for with its old token, and the
\* call threw.
C9_Witness ==
    /\ reply.op = "GET /auth/setup-status"
    /\ reply.userId \notin DOMAIN users
    /\ reply.thrown = "User not found"
    /\ reply.code = 500

\* The setup flow together with the password-reset flow, which owns the OTP
\* store.
MaxTicks == 2
TickMs == 5 * 60 * 1000
OtpCodes == {"123456", "654321"}
FrameRegisterBodies ==
    {RegisterBody(e, GoodPassword, GoodPhone, r, FALSE, pd) :
        e \in SetupEmails, r \in {"car_owner", "service_center"},
        pd \in {BusinessProfileData}}
FrameSetupBodies ==
    {SetupBody(GoodPhone, "car_owner",
               VehiclesProfileData(<<VehicleData("CAR-1", UNDEFINED)>>)),
     SetupBody(GoodPhone, "part_seller", ShopProfileData)}

NextFrame ==
    \/ \E b \in FrameRegisterBodies :
            /\ nextUserId <= MaxUserId
            /\ Register(b.email, b.password, b.phone, b.role, b.isMobile, b.pd)
    \/ \E email \in SetupEmails :
            /\ nextUserId <= MaxUserId
            /\ GoogleLogin(email)
    \/ \E email \in SetupEmails, notified \in BOOLEAN :
            Login(email, GoodPassword, notified)
    \/ \E u \in TokenUserIds : GetSetupStatus(u)
    \/ \E u \in TokenUserIds, b \in FrameSetupBodies :
            /\ SetupDetails(u, b.phone, b.role, b.pd)
            /\ nextVehicleId' <= MaxVehicleId + 1
    \/ \E u \in TokenUserIds : Onboarding(u, GoodPhone)
    \/ \E a \in TokenUserIds :
            /\ nextSubscriptionId <= MaxSubscriptionId
            /\ CreateSubscription(a)
    \/ \E a \in TokenUserIds : DeleteAccount(a)
    \/ \E email \in SetupEmails, otp \in OtpCodes : ForgotPassword(email, otp)
    \/ \E email \in SetupEmails, otp \in OtpCodes : VerifyOtp(email, otp)
    \/ now < MaxTicks * TickMs /\ Tick(TickMs)

SpecFrame == Init /\ [][NextFrame]_vars

\* C10: checkSetupStatus has no side effects: a request that only calls it
\* (GET /auth/setup-status), whether the call returns or throws, leaves every
\* account, profile, vehicle and subscription row, the id sequences and the
\* OTP store as they were; and two such requests in a row for the same id get
\* equal answers.
C10_NoSideEffects ==
    [][ /\ (reply'.op = "GET /auth/setup-status" /\ reply' # reply)
            => UNCHANGED <<rows, sequences, otpStore>>
        /\ (reply'.op = "GET /auth/setup-status"
              /\ reply.op = "GET /auth/setup-status"
              /\ reply'.userId = reply.userId)
            => reply' = reply ]_vars

\* The status of an existing account was asked for while the OTP store held a
\* code for its address.
C10_Witness ==
    /\ HasStatus
    /\ reply.op = "GET /auth/setup-status"
    /\ Acc.email \in DOMAIN otpStore
    /\ subscriptions # {}

\* The account of the status holds none of the three role-profile rows.
AccNoProfile ==
    reply.userId \notin
        (carOwnerProfiles \cup serviceCenterProfiles \cup partSellerProfiles)

\* The account of the status holds the profile row of its own role.
AccMatchingProfile ==
    \/ Acc.role = "service_center" /\ reply.userId \in serviceCenterProfiles
    \/ Acc.role = "part_seller" /\ reply.userId \in partSellerProfiles

C13_OnlyPaymentMissing ==
    (HasStatus /\ Truthy(Acc.phone) /\ AccMatchingProfile
       /\ ~\E s \in AccSubscriptions : s.status = "active")
      => /\ St.isRegistrationComplete
         /\ St.isSetupComplete
         /\ St.missingSteps = <<"payment">>
         /\ St.redirectTo = "/setup/payment"

\* A part seller with phone and shop profile, whose subscription was cancelled,
\* was sent to the payment step alone.
C13_Witness ==
    /\ HasStatus
    /\ Acc.role = "part_seller" /\ Acc.phone = GoodPhone
    /\ reply.userId \in partSellerProfiles
    /\ \E s \in AccSubscriptions : s.status = "cancelled"
    /\ St.missingSteps = <<"payment">>
    /\ St.redirectTo = "/setup/payment"

\* The onboarding flows of SETUP_FLOW.md: an account is created, completes its
\* details, pays, lets the subscription lapse, and asks for its status.
FlowRegisterBodies ==
    {RegisterBody(e, GoodPassword, UNDEFINED, UNDEFINED, TRUE, NoProfileData) :
        e \in Emails}
    \cup {RegisterBody(e, GoodPassword, ph, "service_center", FALSE, pd) :
        e \in Emails, ph \in {UNDEFINED, GoodPhone},
        pd \in {EmptyProfileData, BusinessProfileData}}
FlowSetupBodies ==
    {SetupBody(GoodPhone, "car_owner",
               VehiclesProfileData(<<VehicleData("CAR-1", UNDEFINED)>>)),
     SetupBody(GoodPhone, "service_center", BusinessProfileData),
     SetupBody(GoodPhone, "part_seller", ShopProfileData)}

NextFlow ==
    \/ \E b \in FlowRegisterBodies :
            /\ nextUserId <= MaxUserId
            /\ Register(b.email, b.password, b.phone, b.role, b.isMobile, b.pd)
    \/ \E email \in Emails :
            /\ GoogleLogin(email)
            /\ nextUserId' <= MaxUserId + 1
    \/ \E email \in Emails : Login(email, GoodPassword, TRUE)
    \/ \E u \in TokenUserIds : GetSetupStatus(u)
    \/ \E u \in TokenUserIds, b \in FlowSetupBodies :
            /\ SetupDetails(u, b.phone, b.role, b.pd)
            /\ nextVehicleId' <= MaxVehicleId + 1
    \/ \E a \in TokenUserIds :
            /\ CreateSubscription(a)
            /\ nextSubscriptionId' <= MaxSubscriptionId + 1
    \/ \E a \in TokenUserIds, id \in 1..MaxSubscriptionId,
          status \in {"active", "expired"} :
            UpdateSubscription(a, id, status)

SpecFlow == Init /\ [][NextFlow]_vars

\* C12: POST /auth/google with a valid token for an email that has no account
\* creates an account with role 'car_owner', no phone and
\* isRegistrationComplete false, and answers with the status {false, false,
\* false, <<'registration', 'profile'>>, '/setup/details'} and requiresSetup
\* true; for an email that has an account, no row is created or changed.
C12_GoogleLogin ==
    [][ reply'.op = "POST /auth/google" =>
          LET id == reply'.userId
              email == users'[id].email
          IN  IF \E i \in DOMAIN users : users[i].email = email
              THEN UNCHANGED <<rows, sequences>>
              ELSE /\ id \notin DOMAIN users
                   /\ DOMAIN users' = (DOMAIN users) \cup {id}
                   /\ \A i \in DOMAIN users : users'[i] = users[i]
                   /\ users'[id].role = "car_owner"
                   /\ users'[id].phone = NULL
                   /\ ~users'[id].isRegistrationComplete
                   /\ UNCHANGED <<carOwnerProfiles, serviceCenterProfiles,
                                  partSellerProfiles, vehicles, subscriptions>>
                   /\ reply'.code = 200
                   /\ ~reply'.setupStatus.isRegistrationComplete
                   /\ ~reply'.setupStatus.isSetupComplete
                   /\ ~reply'.setupStatus.hasActiveSubscription
                   /\ reply'.setupStatus.missingSteps
                          = <<"registration", "profile">>
                   /\ reply'.setupStatus.redirectTo = "/setup/details"
                   /\ reply'.requiresSetup ]_vars

\* A Google login has just created the newest account and was told that
\* registration and profile are missing.
C12_Witness ==
    /\ HasStatus /\ reply.op = "POST /auth/google"
    /\ nextUserId = reply.userId + 1
    /\ Acc.password = "" /\ Acc.phone = NULL /\ Acc.role = "car_owner"
    /\ AccNoProfile
    /\ reply.requiresSetup

\* C14 as stated: after a successful POST /auth/setup/details with a phone,
\* role 'car_owner' and at least one vehicle, the status has no missing step
\* and no redirect, so the car owner can access the dashboard.
C14_AsStated ==
    (HasStatus /\ reply.op = "POST /auth/setup/details"
       /\ Acc.role = "car_owner" /\ Truthy(Acc.phone)
       /\ reply.userId \in carOwnerProfiles /\ AccVehicles # {})
      => /\ St.missingSteps = << >>
         /\ St.redirectTo = NoRedirect
         /\ canAccessDashboard(St)

\* The account u is a business account with a phone and its matching profile.
BusinessReady(u) ==
    /\ u \in DOMAIN users
    /\ Truthy(users[u].phone)
    /\ \/ users[u].role = "service_center" /\ u \in serviceCenterProfiles
       \/ users[u].role = "part_seller" /\ u \in partSellerProfiles

\* A step in which a subscription row is created for u.
SubscriptionCreatedFor(u) ==
    /\ ~\E s \in subscriptions : s.userId = u
    /\ \E s \in subscriptions' : s.userId = u

\* C15: for a new service-center account, a successful POST
\* /auth/setup/details with a phone, role 'service_center' and business
\* details is answered with missingSteps <<'payment'>> and redirectTo
\* '/setup/payment'; once a POST /subscriptions by that user has then created
\* its subscription, checkSetupStatus returns no missing step and no redirect.
C15_ServiceCenterFlow ==
    [][ /\ (reply'.op = "POST /auth/setup/details" /\ reply'.code = 200
              /\ users'[reply'.userId].role = "service_center"
              /\ ~\E s \in subscriptions' : s.userId = reply'.userId)
            => /\ reply'.setupStatus.missingSteps = <<"payment">>
               /\ reply'.setupStatus.redirectTo = "/setup/payment"
        /\ \A u \in DOMAIN users :
             (BusinessReady(u) /\ users[u].role = "service_center"
                /\ SubscriptionCreatedFor(u))
               => /\ checkSetupStatus(u)'.missingSteps = << >>
                  /\ checkSetupStatus(u)'.redirectTo = NoRedirect ]_vars

\* A service center that completed its details and then subscribed asked for
\* its status and has nothing left to do.
C15_Witness ==
    /\ HasStatus /\ reply.op = "GET /auth/setup-status"
    /\ Acc.role = "service_center" /\ Acc.phone = GoodPhone
    /\ Acc.password = ""
    /\ reply.userId \in serviceCenterProfiles
    /\ \E s \in AccSubscriptions : s.status = "active"
    /\ St.missingSteps = << >> /\ St.redirectTo = NoRedirect

\* C16 as stated: a service_center or part_seller with phone and matching
\* profile whose subscription is 'expired' has 'payment' as its only missing
\* step, with redirectTo '/setup/payment'; and after that user's POST
\* /subscriptions, checkSetupStatus reports no missing step.
C16_AsStated ==
    [][ \A u \in DOMAIN users :
          (BusinessReady(u)
             /\ \E s \in subscriptions : s.userId = u /\ s.status = "expired")
            => /\ checkSetupStatus(u).missingSteps = <<"payment">>
               /\ checkSetupStatus(u).redirectTo = "/setup/payment"
               /\ CreateSubscription(u)
                    => checkSetupStatus(u)'.missingSteps = << >> ]_vars

\* The requests that create accounts and role profiles: register, Google
\* login, setup/details, onboarding and the two admin-creation endpoints.
NextAccounts ==
    \/ \E b \in RegisterBodies :
            /\ nextUserId <= MaxUserId
            /\ Register(b.email, b.password, b.phone, b.role, b.isMobile, b.pd)
    \/ \E email \in SetupEmails :
            /\ GoogleLogin(email)
            /\ nextUserId' <= MaxUserId + 1
    \/ \E u \in TokenUserIds, b \in SetupBodies :
            /\ SetupDetails(u, b.phone, b.role, b.pd)
            /\ nextVehicleId' <= MaxVehicleId + 1
    \/ \E u \in TokenUserIds, contact \in Phones : Onboarding(u, contact)
    \/ \E userType \in {"Service Centers", "Car Users", UNDEFINED},
          email \in SetupEmails, phone \in {UNDEFINED, GoodPhone} :
            /\ nextUserId <= MaxUserId
            /\ CreateServiceCenters(userType, email, phone)
    \/ \E email \in SetupEmails, phone \in {UNDEFINED, GoodPhone} :
            /\ nextUserId <= MaxUserId
            /\ CreateSparePartSellers(email, phone)

SpecAccounts == Init /\ [][NextAccounts]_vars

\* The role-profile variants of which account u holds a row.
ProfileVariants(u) ==
    (IF u \in carOwnerProfiles THEN {"car_owner"} ELSE {})
    \cup (IF u \in serviceCenterProfiles THEN {"service_center"} ELSE {})
    \cup (IF u \in partSellerProfiles THEN {"part_seller"} ELSE {})

\* C17 as stated: in every state reached through register, Google login,
\* setup/details, onboarding and admin-creation requests, each account has at
\* most one role-profile row, and that row is the variant of the account's
\* role.
C17_AsStated ==
    \A u \in DOMAIN users :
        /\ Cardinality(ProfileVariants(u)) <= 1
        /\ ProfileVariants(u) \subseteq {users[u].role}

\* C20 as stated: every vehicle row is owned by an account whose role is
\* 'car_owner'.
C20_AsStated ==
    \A v \in vehicles :
        v.userId \in DOMAIN users /\ users[v.userId].role = "car_owner"

\* Concurrent POST /subscriptions requests, among the requests that create and
\* delete accounts and that change and delete subscription rows.
NextRace ==
    \/ \E b \in FrameRegisterBodies :
            /\ nextUserId <= MaxUserId
            /\ Register(b.email, b.password, b.phone, b.role, b.isMobile, b.pd)
    \/ \E u \in TokenUserIds : Onboarding(u, GoodPhone)
    \/ \E a \in TokenUserIds : DeleteAccount(a)
    \/ \E a \in TokenUserIds, rid \in 1..MaxInflight : SubscriptionCheck(a, rid)
    \/ \E rid \in 1..MaxInflight :
            /\ SubscriptionCreate(rid)
            /\ nextSubscriptionId' <= MaxSubscriptionId + 2
    \/ \E a \in TokenUserIds, id \in 1..(MaxSubscriptionId + 1),
          status \in {"active", "expired"} :
            UpdateSubscription(a, id, status)
    \/ \E a \in TokenUserIds, id \in 1..(MaxSubscriptionId + 1) :
            DeleteSubscription(a, id)

SpecRace == Init /\ [][NextRace]_vars

\* C18: after any interleaving of POST /subscriptions requests, two requests
\* of one user that both pass the existence check before either creates
\* included, each account owns at most one subscription row.
C18_AtMostOneSubscription ==
    \A u \in {s.userId : s \in subscriptions} :
        Cardinality({s \in subscriptions : s.userId = u}) <= 1

\* A request that had passed the check was refused at the create, because a
\* concurrent request of the same user had created the row in between.
C18_Witness ==
    /\ reply.op = "POST /subscriptions" /\ reply.code = 500
    /\ reply.userId \in DOMAIN users
    /\ \E s \in subscriptions : s.userId = reply.userId

\* Two accounts side by side.  TokenRequest(b) is any request that carries the
\* token of account b, EmailRequest(e) any unauthenticated request that names
\* the address e.
PairUserIds == 1..(MaxUserId + 1)

PairSetupBodies ==
    {SetupBody(GoodPhone, "car_owner",
               VehiclesProfileData(<<VehicleData("CAR-1", UNDEFINED)>>)),
     SetupBody(GoodPhone, "service_center", BusinessProfileData)}

TokenRequest(b) ==
    \/ \E body \in PairSetupBodies :
            /\ b \in TokenUserIds
            /\ SetupDetails(b, body.phone, body.role, body.pd)
            /\ nextVehicleId' <= MaxVehicleId
    \/ \E u \in PairUserIds :
            /\ {b, u} \subseteq TokenUserIds
            /\ AddVehicle(b, u, "CAR-1")
            /\ nextVehicleId' <= MaxVehicleId
    \/ \E u \in PairUserIds, v \in 1..(MaxVehicleId - 1) :
            /\ {b, u} \subseteq TokenUserIds
            /\ UpdateVehicle(b, u, v, "CAR-1", << >>)
    \/ \E u \in PairUserIds, v \in 1..(MaxVehicleId - 1) :
            /\ {b, u} \subseteq TokenUserIds
            /\ DeleteVehicle(b, u, v)
    \/ \E u \in PairUserIds :
            /\ {b, u} \subseteq TokenUserIds
            /\ UpdateProfile(b, u, GoodPhone)
    \/ /\ b \in TokenUserIds
       /\ CreateSubscription(b)
       /\ nextSubscriptionId' <= MaxSubscriptionId + 1
    \/ \E id \in 1..MaxSubscriptionId :
            /\ b \in TokenUserIds
            /\ UpdateSubscription(b, id, "expired")
    \/ \E id \in 1..MaxSubscriptionId :
            /\ b \in TokenUserIds
            /\ DeleteSubscription(b, id)
    \/ /\ b \in TokenUserIds
       /\ DeleteAccount(b)

EmailRequest(e) ==
    \/ /\ Register(e, GoodPassword, GoodPhone, "service_center", FALSE,
                   BusinessProfileData)
       /\ nextUserId' <= MaxUserId + 2
    \/ /\ GoogleLogin(e)
       /\ nextUserId' <= MaxUserId + 2

NextPair ==
    \/ \E b \in PairUserIds : TokenRequest(b)
    \/ \E e \in Emails : EmailRequest(e)

SpecPair == Init /\ [][NextPair]_vars

\* C19: invocations of checkSetupStatus for different accounts do not
\* interact: in any interleaving, a step leaves what checkSetupStatus returns
\* for account a as it was, unless the step is no request made with the token
\* of another account and no request naming the address of another account.
C19_NoInterference ==
    [][ \A a \in DOMAIN users :
          \/ checkSetupStatus(a)' = checkSetupStatus(a)
          \/ ~(\/ \E b \in PairUserIds \ {a} : TokenRequest(b)
               \/ \E e \in Emails \ {users[a].email} : EmailRequest(e)) ]_vars

\* Two accounts exist, both with rows of their own: one a car owner with a
\* vehicle, the other a service center with a subscription.
C19_Witness ==
    \E a, b \in DOMAIN users :
        /\ a # b
        /\ users[a].role = "car_owner"
        /\ \E v \in vehicles : v.userId = a
        /\ users[b].role = "service_center"
        /\ \E s \in subscriptions : s.userId = b

\* The setup/details requests of two car owners, accepted and refused, next to
\* the registrations and vehicle additions that make profiles exist and
\* licence plates taken.  Of these requests only setup/details answers 500.
AtomicSetupBodies ==
    {SetupBody(GoodPhone, "car_owner", VehiclesProfileData(vs)) :
        vs \in VehicleLists}
    \cup {SetupBody(GoodPhone, "service_center", BusinessProfileData),
          SetupBody(ShortPhone, "service_center", BusinessProfileData)}

NextSetup ==
    \/ \E e \in Emails :
            /\ Register(e, GoodPassword, UNDEFINED, UNDEFINED, TRUE,
                        NoProfileData)
            /\ nextUserId' <= MaxUserId + 2
    \/ \E u \in PairUserIds, b \in AtomicSetupBodies :
            /\ u \in TokenUserIds
            /\ SetupDetails(u, b.phone, b.role, b.pd)
            /\ nextVehicleId' <= MaxVehicleId + 1
    \/ \E u \in PairUserIds, plate \in Plates :
            /\ u \in TokenUserIds
            /\ AddVehicle(u, u, plate)
            /\ nextVehicleId' <= MaxVehicleId + 1

SpecSetup == Init /\ [][NextSetup]_vars

\* C21: POST /auth/setup/details is all-or-nothing: a request that is not
\* answered 200 (refused by the validation, or failed inside the transaction
\* on an existing role profile or a taken licence plate) leaves every user
\* row (phone, role, isRegistrationComplete) and every profile and vehicle row
\* exactly as before the request.
C21_AllOrNothing ==
    [][ \A u \in PairUserIds, b \in AtomicSetupBodies :
          (SetupDetails(u, b.phone, b.role, b.pd) /\ reply'.code # 200)
            => UNCHANGED <<users, carOwnerProfiles, serviceCenterProfiles,
                           partSellerProfiles, vehicles>> ]_vars

\* A request has just been answered 500, which among the requests of
\* SpecSetup only a setup/details whose transaction failed is, while an
\* account is still without phone and profile and a licence plate is taken.
C21_Witness ==
    /\ reply.code = 500
    /\ \E u \in DOMAIN users :
            /\ u \notin carOwnerProfiles
            /\ u \notin serviceCenterProfiles
            /\ users[u].phone = NULL
    /\ \E v \in vehicles : TRUE

\* The vehicle routes of two car owners, each route also called with the
\* other account's id in the path and with the other account's vehicle.
VehicleRequest(a, u, v) ==
    \/ \E plate \in Plates, isPrimary \in {<< >>, <<TRUE>>} :
            /\ {a, u} \subseteq TokenUserIds
            /\ UpdateVehicle(a, u, v, plate, isPrimary)
    \/ /\ {a, u} \subseteq TokenUserIds
       /\ DeleteVehicle(a, u, v)
    \/ /\ {a, u} \subseteq TokenUserIds
       /\ SetPrimary(a, u, v)

NextVehicles ==
    \/ \E e \in Emails :
            /\ Register(e, GoodPassword, UNDEFINED, UNDEFINED, TRUE,
                        NoProfileData)
            /\ nextUserId' <= MaxUserId + 2
    \/ \E u \in PairUserIds, plate \in Plates :
            /\ u \in TokenUserIds
            /\ AddVehicle(u, u, plate)
            /\ nextVehicleId' <= MaxVehicleId + 1
    \/ \E a \in PairUserIds, u \in PairUserIds, v \in 1..MaxVehicleId :
            VehicleRequest(a, u, v)

SpecVehicles == Init /\ [][NextVehicles]_vars

\* C22: an update, delete or set-primary request on
\* /users/:userId/vehicles/:vehicleId by the authenticated user a changes or
\* removes only rows of :userId, and only when a is :userId; when a is another
\* user the request is answered 403 and every vehicle row stays as it was.
\* No request creates a row or moves one to another user.
C22_OwnerOnly ==
    [][ \A a \in PairUserIds, u \in PairUserIds, v \in 1..MaxVehicleId :
          VehicleRequest(a, u, v) =>
            /\ a # u => (reply'.code = 403 /\ vehicles' = vehicles)
            /\ \A w \in vehicles \ vehicles' : a = u /\ w.userId = u
            /\ \A w \in vehicles' \ vehicles :
                    \E o \in vehicles \ vehicles' :
                        o.id = w.id /\ o.userId = w.userId ]_vars

\* Both accounts own a vehicle, and the last request, one on a vehicle route
\* made for the other account's path, was answered 403.
C22_Witness ==
    /\ reply.code = 403
    /\ \E v, w \in vehicles : v.userId # w.userId

\* C28: a PATCH /users/:userId/vehicles/:vehicleId/primary that fails because
\* :vehicleId is not a vehicle of that user (500) leaves the isPrimary flags of
\* all the user's vehicles as they were before the request.
C28_AsStated ==
    [][ \A u \in PairUserIds, v \in 1..MaxVehicleId :
          (u \in TokenUserIds /\ SetPrimary(u, u, v) /\ reply'.code = 500)
            => vehicles' = vehicles ]_vars

\* The set-primary requests of one car owner as their two awaits, so that two
\* of them can interleave, next to the additions and deletions of vehicles.
NextPrimary ==
    \/ /\ Register("a@x.io", GoodPassword, UNDEFINED, UNDEFINED, TRUE,
                   NoProfileData)
       /\ nextUserId' <= MaxUserId + 1
    \/ \E u \in UserIds, plate \in Plates :
            /\ u \in TokenUserIds
            /\ AddVehicle(u, u, plate)
            /\ nextVehicleId' <= MaxVehicleId + 1
    \/ \E u \in UserIds, v \in 1..MaxVehicleId :
            /\ u \in TokenUserIds
            /\ DeleteVehicle(u, u, v)
    \/ \E u \in UserIds, v \in 1..MaxVehicleId, rid \in 1..MaxInflight :
            /\ u \in TokenUserIds
            /\ PrimaryReset(u, u, v, rid)
    \/ \E rid \in 1..MaxInflight : PrimarySet(rid)

SpecPrimary == Init /\ [][NextPrimary]_vars

\* C27: in every reachable state each user has at most one vehicle with
\* isPrimary true, also after two set-primary requests of the same user whose
\* reset and set steps interleave.
C27_AsStated ==
    \A u \in DOMAIN users :
        Cardinality({v \in vehicles : v.userId = u /\ v.isPrimary}) <= 1

\* The one-time passwords of two accounts: forgot-password and verify-otp with
\* right and wrong codes, while time passes beyond the lifetime of a code.
OtpRegister(e) ==
    /\ Register(e, GoodPassword, GoodPhone, "car_owner", FALSE, NoProfileData)
    /\ nextUserId' <= MaxUserId + 2

NextOtp ==
    \/ \E e \in Emails : OtpRegister(e)
    \/ \E e \in Emails, otp \in OtpCodes : ForgotPassword(e, otp)
    \/ \E e \in Emails, otp \in OtpCodes : VerifyOtp(e, otp)
    \/ now < (MaxTicks + 1) * TickMs /\ Tick(TickMs)

SpecOtp == Init /\ [][NextOtp]_vars

\* C23: POST /auth/verify-otp for an email succeeds only if the store holds an
\* entry for the email whose code equals the submitted one and whose expiry,
\* set to 10 minutes after the forgot-password that stored it, has not passed;
\* a successful verification removes the entry, so that a second verification
\* right after it is refused.
C23_VerifyOnce ==
    [][ \A e \in Emails, o \in OtpCodes :
          /\ (ForgotPassword(e, o) /\ reply'.code = 200)
                => otpStore'[e] = [otp |-> o, expires |-> now + 10 * 60 * 1000]
          /\ (VerifyOtp(e, o) /\ reply'.code = 200)
                => /\ e \in DOMAIN otpStore
                   /\ otpStore[e].otp = o
                   /\ now <= otpStore[e].expires
                   /\ e \notin DOMAIN otpStore'
          /\ (/\ reply.op = "POST /auth/verify-otp"
              /\ reply.code = 200
              /\ reply.resetToken.email = e
              /\ VerifyOtp(e, o))
                => reply'.code = 400 ]_vars

\* A code was verified on the last instant of its ten minutes, and its entry
\* is gone.
C23_Witness ==
    /\ reply.op = "POST /auth/verify-otp"
    /\ reply.code = 200
    /\ reply.resetToken.exp - ResetTtlMs = OtpTtlMs
    /\ reply.resetToken.email \notin DOMAIN otpStore

\* C24: an entry leaves the OTP store only through a successful verify-otp for
\* its email, and changes only through a forgot-password for its email: a
\* refused verification and the passing of time leave the store as it was, so
\* an expired entry stays until it is overwritten.  The store is keyed by
\* email and so holds at most one entry per email.
C24_OnlyVerifyRemoves ==
    [][ /\ \A e \in DOMAIN otpStore :
            /\ e \notin DOMAIN otpStore'
                  => \E o \in OtpCodes : VerifyOtp(e, o) /\ reply'.code = 200
            /\ (e \in DOMAIN otpStore' /\ otpStore'[e] # otpStore[e])
                  => \E o \in OtpCodes :
                        ForgotPassword(e, o) /\ reply'.code = 200
        /\ \A e \in Emails, o \in OtpCodes :
            (VerifyOtp(e, o) /\ reply'.code # 200) => UNCHANGED otpStore
        /\ now' # now => UNCHANGED otpStore
        /\ DOMAIN otpStore' \subseteq Emails ]_vars

\* An entry whose expiry has passed is still in the store.
C24_Witness ==
    \E e \in DOMAIN otpStore : now > otpStore[e].expires

\* Repeated forgot-password calls: of the codes the handler can draw, the
\* first for an address without an entry and the second for an address that
\* has one, so that a stored second code has replaced an earlier code.
NextOtpTwice ==
    \/ \E e \in Emails : OtpRegister(e)
    \/ \E e \in Emails :
            ForgotPassword(e, IF e \in DOMAIN otpStore
                              THEN "654321" ELSE "123456")
    \/ \E e \in Emails, otp \in OtpCodes : VerifyOtp(e, otp)
    \/ now < (MaxTicks + 1) * TickMs /\ Tick(TickMs)

SpecOtpTwice == Init /\ [][NextOtpTwice]_vars

\* C26: when forgot-password is called again for an email, the code of the
\* latest call replaces the earlier one, and a verify-otp with a code other
\* than the stored one is refused and changes nothing, also when the entry of
\* the earlier code would not yet have expired.
C26_LatestCodeOnly ==
    [][ \A e \in Emails, o1 \in OtpCodes : \A o2 \in OtpCodes \ {o1} :
          /\ (/\ e \in DOMAIN otpStore
              /\ otpStore[e].otp = o1
              /\ ForgotPassword(e, o2)
              /\ reply'.code = 200)
                => (otpStore'[e].otp = o2 /\ otpStore'[e].otp # o1)
          /\ (/\ e \in DOMAIN otpStore
              /\ otpStore[e].otp = o2
              /\ VerifyOtp(e, o1))
                => (reply'.code = 400 /\ UNCHANGED <<otpStore, issued>>) ]_vars

\* The store holds the code of a second call, made no later than five minutes
\* after the start, so inside the window of the code it replaced.
C26_Witness ==
    \E e \in DOMAIN otpStore :
        /\ otpStore[e].otp = "654321"
        /\ otpStore[e].expires <= TickMs + OtpTtlMs
        /\ now <= otpStore[e].expires

\* The whole password-reset flow of two accounts: forgot-password, verify-otp
\* and reset-password, the latter with every reset token issued so far, a
\* session token and a reset token nobody signed, while time passes beyond the
\* lifetime of a reset token.
NewPassword == "changed456"
MaxIssued == 2
CandidateTokens ==
    issued \cup {SessionToken(u) : u \in TokenUserIds}
           \cup {ResetToken(e) : e \in Emails}

NextReset ==
    \/ \E e \in Emails : OtpRegister(e)
    \/ \E e \in Emails : ForgotPassword(e, "123456")
    \/ \E e \in Emails :
            /\ VerifyOtp(e, "123456")
            /\ Cardinality(issued') <= MaxIssued
    \/ \E e \in Emails, token \in CandidateTokens :
            ResetPassword(e, NewPassword, token)
    \/ now < (MaxTicks + 1) * TickMs /\ Tick(TickMs)

SpecReset == Init /\ [][NextReset]_vars

\* C25: POST /auth/reset-password changes the password of the account with
\* email e only when given a token that a successful verify-otp for e has
\* issued (type 'reset', email e); a session token, a reset token for another
\* email and a token nobody issued are answered 400 and leave every password
\* as it was.  A reset token is issued only by a verify-otp that found an
\* entry, which only a forgot-password for that email stores, so no password
\* of e changes without both.
C25_ResetNeedsVerifiedOtp ==
    [][ /\ \A e \in Emails, token \in CandidateTokens :
            ResetPassword(e, NewPassword, token) =>
                /\ reply'.code = 200 =>
                      (token \in issued /\ token.type = "reset"
                                        /\ token.email = e)
                /\ (token \notin issued \/ token.type # "reset"
                                        \/ token.email # e)
                      => (reply'.code = 400 /\ UNCHANGED users)
        /\ \A u \in (DOMAIN users) \cap (DOMAIN users') :
            users'[u].password # users[u].password =>
                \E t \in issued : t.type = "reset" /\ t.email = users[u].email
        /\ \A t \in issued' \ issued :
            /\ t.email \in DOMAIN otpStore
            /\ VerifyOtp(t.email, otpStore[t.email].otp)
            /\ reply'.code = 200 ]_vars

\* A password was reset while reset tokens for both addresses were issued, so
\* that a token of the other address was there to be refused.
C25_Witness ==
    /\ reply.op = "POST /auth/reset-password"
    /\ reply.code = 200
    /\ \E u \in DOMAIN users : users[u].password = Hash(NewPassword)
    /\ \A e \in Emails : \E t \in issued : t.email = e

\* The requests that move one account through every role, profile, vehicle
\* and subscription state, and GET /user/status in each of them, also with
\* the token of an account that was deleted.
StatusRegisterBodies ==
    {RegisterBody(e, GoodPassword, GoodPhone, r, FALSE, pd) :
        e \in SetupEmails, r \in {"car_owner", "service_center", "admin"},
        pd \in {BusinessProfileData}}

NextStatus ==
    \/ \E b \in StatusRegisterBodies :
            /\ Register(b.email, b.password, b.phone, b.role, b.isMobile, b.pd)
            /\ nextUserId' <= MaxUserId + 2
    \/ \E u \in PairUserIds, b \in FlowSetupBodies :
            /\ u \in TokenUserIds
            /\ SetupDetails(u, b.phone, b.role, b.pd)
            /\ nextVehicleId' <= MaxVehicleId + 1
    \/ \E u \in PairUserIds, v \in 1..MaxVehicleId :
            /\ u \in TokenUserIds
            /\ DeleteVehicle(u, u, v)
    \/ \E a \in PairUserIds :
            /\ a \in TokenUserIds
            /\ CreateSubscription(a)
            /\ nextSubscriptionId' <= MaxSubscriptionId + 1
    \/ \E a \in PairUserIds, id \in 1..MaxSubscriptionId :
            /\ a \in TokenUserIds
            /\ UpdateSubscription(a, id, "expired")
    \/ \E a \in PairUserIds :
            /\ a \in TokenUserIds
            /\ DeleteAccount(a)
    \/ \E u \in PairUserIds :
            /\ u \in TokenUserIds
            /\ GetUserStatus(u)

SpecStatus == Init /\ [][NextStatus]_vars

\* C29: in every account state GET /user/status returns the isSetupComplete
\* and hasActiveSubscription that checkSetupStatus returns for the account,
\* and it answers 404 exactly when checkSetupStatus raises 'User not found'.
C29_StatusAgrees ==
    reply.op = "GET /user/status" =>
        LET st == checkSetupStatus(reply.userId) IN
        /\ reply.code \in {200, 404}
        /\ reply.code = 404 <=> st = UserNotFound
        /\ reply.code = 200 =>
              /\ reply.isSetupComplete = st.isSetupComplete
              /\ reply.hasActiveSubscription = st.hasActiveSubscription

\* GET /user/status answered for a service center whose subscription has
\* expired: set up, and without an active subscription though a row exists.
C29_Witness ==
    /\ reply.op = "GET /user/status"
    /\ reply.code = 200
    /\ reply.isSetupComplete
    /\ ~reply.hasActiveSubscription
    /\ \E sub \in subscriptions : sub.userId = reply.userId

\* C30: DELETE /auth/delete-account of an existing account either answers
\* success, after which the account, its car-owner profile and its vehicles
\* are gone and checkSetupStatus raises 'User not found', or answers 500 and
\* leaves every row unchanged; for an account without a car-owner profile row
\* it answers success.
C30_AsStated ==
    [][\A a \in PairUserIds :
          (a \in DOMAIN users /\ DeleteAccount(a)) =>
              /\ \/ /\ reply'.code = 200
                    /\ a \notin DOMAIN users'
                    /\ a \notin carOwnerProfiles'
                    /\ \A v \in vehicles' : v.userId # a
                    /\ checkSetupStatus(a)' = UserNotFound
                 \/ /\ reply'.code = 500
                    /\ UNCHANGED <<users, carOwnerProfiles, vehicles,
                                   serviceCenterProfiles, partSellerProfiles,
                                   subscriptions>>
              /\ a \notin carOwnerProfiles => reply'.code = 200]_vars

====
